---- MODULE Spec2Model ----
(***************************************************************************)
(* hivedeck-agent: the access-control core of the agent.                   *)
(*                                                                         *)
(*   Spec      the request gate: configuration loading, server             *)
(*             construction, the middleware chain, the setup/settings and  *)
(*             service handlers, key saving and process restart            *)
(*   SpecToken AuthService.GenerateToken / ValidateToken under a clock     *)
(*   SpecPath  files.Browser and the three file handlers over character    *)
(*             level paths                                                 *)
(*   SpecSvc   the service and process handlers behind the gate            *)
(*   SpecTask  the task handler behind the gate                            *)
(*   SpecLimiter  RateLimiter.Allow called from concurrent goroutines      *)
(*   SpecExtract  ExtractToken over the text of header and query parameter *)
(***************************************************************************)
EXTENDS Integers, Sequences, FiniteSets, TLC

VARIABLES
  env,        \* the .env file / process environment read by config.Load
  cfg,        \* the *config.Config shared by Server, Handlers, SetupHandlers
  auth,       \* Server.auth: the AuthService built by server.New
  svcAllowed, \* Handlers.serviceManager.allowedServices (systemd.Manager)
  setupRoutes,\* whether setupRoutes registered the /setup group
  requests,   \* RateLimiter.requests: client key -> recorded timestamps
  now,        \* time.Now(), in ticks
  req,        \* the request being served (gin.Context), or Idle
  services,   \* SpecToken: the AuthServices under test
  issued,     \* SpecToken: the last GenerateToken call and the token it returned
  verdict,    \* SpecToken: the last ValidateToken call and its result
  browser,    \* Handlers.fileBrowser (files.Browser)
  fileOp,     \* SpecPath: the last file handler call and its result
  mu,         \* RateLimiter.mu: the goroutine holding the mutex, or NoHolder
  callers,    \* SpecLimiter: the goroutines calling RateLimiter.Allow
  log,        \* SpecLimiter: the Allow calls that returned, in order
  extracted,  \* SpecExtract: the last ExtractToken call and its result
  logged,     \* the panic values RecoveryMiddleware wrote to the log
  srv,        \* Server.Run: the listener, the Shutdown call and the process
  stream,     \* a log stream: its handler, journalctl and Follow's goroutines
  cache,      \* cache.Cache: its items, and the calls made on it
  upd         \* SetupHandlers.UpdateSettings in progress, and what a reader saw

vars == <<env, cfg, auth, svcAllowed, setupRoutes, requests, now, req,
          services, issued, verdict, browser, fileOp, mu, callers, log,
          extracted, logged, srv, stream, cache, upd>>

gateVars  == <<env, cfg, auth, svcAllowed, setupRoutes, requests, req>>
tokenVars == <<services, issued, verdict>>
pathVars  == <<fileOp>>
limVars   == <<mu, callers, log>>
textVars  == <<extracted, logged>>
auxVars   == <<srv, stream, cache, upd>>

(***************************************************************************)
(* Bounds of the model.                                                    *)
(***************************************************************************)
TicksPerSecond == 2   \* resolution of the model clock: ticks in time.Second
MaxTime        == 3   \* the clock stops advancing at this tick
RateLimitRPS   == 1   \* RATE_LIMIT_RPS used by the modelled deployments

Times == 0..MaxTime

(***************************************************************************)
(* Strings.  Secrets are opaque strings; only their length and equality    *)
(* are observed by the code.                                               *)
(***************************************************************************)
MinKeyLen == 32   \* SaveKey: the least length of a key

StrLen(s) ==
  CASE s = ""      -> 0
    [] s = "short" -> 5
    [] s = "k1"    -> 32
    [] s = "k2"    -> 40
    [] s = "j1"    -> 36
    [] OTHER       -> 8

Issuer == "hivedeck-agent"

(***************************************************************************)
(* Tokens as presented on the wire.  A raw string is any text that is not  *)
(* a three-part JWT; a JWT is described by its header algorithm, the key   *)
(* its HMAC was computed with, and its claims.                             *)
(***************************************************************************)
RawTok(s) ==
  [kind |-> "raw", s |-> s, alg |-> "", key |-> "", role |-> "", iss |-> "",
   iat |-> 0, exp |-> 0]

Jwt(alg, key, role, iss, iat, exp) ==
  [kind |-> "jwt", s |-> "", alg |-> alg, key |-> key, role |-> role,
   iss |-> iss, iat |-> iat, exp |-> exp]

EmptyTok == RawTok("")

\* jwt.NewNumericDate: truncation to jwt.TimePrecision (one second)
NewNumericDate(t) == t - (t % TicksPerSecond)

(***************************************************************************)
(* AuthService (internal/server/auth.go)                                   *)
(***************************************************************************)
NewAuthService(apiKey, jwtSecret) == [apiKey |-> apiKey, jwtSecret |-> jwtSecret]

ValidateAPIKey(a, key) ==
  key.kind = "raw" /\ key.s # "" /\ key.s = a.apiKey

GenerateToken(a, role, duration, t) ==
  Jwt("HS256", a.jwtSecret, role, Issuer, NewNumericDate(t),
      NewNumericDate(t + duration))

\* the key function handed to jwt.ParseWithClaims
KeyFuncAccepts(tok) == tok.alg \in {"HS256", "HS384", "HS512"}

\* a verifier that does not check the signature
SignatureUnchecked(a, tok) == TRUE

\* HMAC verification of the signature under the verifier's secret
SignatureVerifies(a, tok) == tok.key = a.jwtSecret

\* a validator that never looks at exp
ExpiryUnchecked(tok, t) == TRUE

\* the registered-claims validator: exp is checked with now.Before(exp)
NotExpired(tok, t) == t < tok.exp

ValidateToken(a, tok, t) ==
  IF tok.kind # "jwt" THEN [ok |-> FALSE, err |-> "malformed"]
  ELSE IF ~KeyFuncAccepts(tok) THEN [ok |-> FALSE, err |-> "unexpected signing method"]
  ELSE IF ~SignatureVerifies(a, tok) THEN [ok |-> FALSE, err |-> "signature is invalid"]
  ELSE IF ~NotExpired(tok, t) THEN [ok |-> FALSE, err |-> "token is expired"]
  ELSE [ok |-> TRUE, err |-> ""]

\* the claims returned by a successful ValidateToken
ClaimsOf(tok) == [role |-> tok.role, iss |-> tok.iss, iat |-> tok.iat, exp |-> tok.exp]

NoClaims == [role |-> "", iss |-> "", iat |-> 0, exp |-> 0]

\* Authorization header: absent, "Bearer <tok>" or a raw value
NoHeader       == [present |-> FALSE, bearer |-> FALSE, tok |-> EmptyTok]
BearerHdr(tok) == [present |-> TRUE, bearer |-> TRUE, tok |-> tok]
RawHdr(tok)    == [present |-> tok # EmptyTok, bearer |-> FALSE, tok |-> tok]

ExtractToken(hdr, query) ==
  IF hdr.present THEN hdr.tok
  ELSE IF query # EmptyTok THEN query
  ELSE EmptyTok


(***************************************************************************)
(* ExtractToken over the text of the request.  A header or parameter      *)
(* value is a sequence of atoms: "Bearer " stands for those seven          *)
(* characters, no other atom begins with them.                             *)
(***************************************************************************)
MaxTextLen == 2

TextAtoms == {"Bearer ", "Bearer", "bearer ", "t"}

Texts == UNION {[1..n -> TextAtoms] : n \in 0..MaxTextLen}

BearerPrefix == <<"Bearer ">>

\* a header or query parameter of the request: sent or not, and its value
Sent(text) == [present |-> TRUE, value |-> text]
NotSent    == [present |-> FALSE, value |-> <<>>]

\* c.GetHeader / c.Query: the value, empty when the field was not sent
GetHeader(h) == IF h.present THEN h.value ELSE <<>>
Query(q)     == IF q.present THEN q.value ELSE <<>>

\* strings.HasPrefix(s, prefix)
StringsHasPrefix(s, prefix) ==
  Len(prefix) <= Len(s) /\ SubSeq(s, 1, Len(prefix)) = prefix

\* strings.TrimPrefix(s, prefix)
StringsTrimPrefix(s, prefix) ==
  IF StringsHasPrefix(s, prefix) THEN SubSeq(s, Len(prefix) + 1, Len(s)) ELSE s

\* ExtractToken looking at the query parameter first
ExtractTokenQueryFirst(h, q) ==
  IF Query(q) # <<>> THEN Query(q)
  ELSE StringsTrimPrefix(GetHeader(h), BearerPrefix)

\* ExtractToken on the header and query parameter as sent
ExtractTokenText(h, q) ==
  LET authHeader == GetHeader(h)
  IN IF authHeader # <<>>
     THEN IF StringsHasPrefix(authHeader, BearerPrefix)
          THEN StringsTrimPrefix(authHeader, BearerPrefix)
          ELSE authHeader
     ELSE IF Query(q) # <<>> THEN Query(q)
     ELSE <<>>

NoExtract == [called |-> FALSE, header |-> NotSent, query |-> NotSent, token |-> <<>>]

\* ExtractToken is called on a request
Extract ==
  /\ ~extracted.called
  /\ \E h \in {NotSent} \cup {Sent(t) : t \in Texts},
        q \in {NotSent} \cup {Sent(t) : t \in Texts} :
       extracted' = [called |-> TRUE, header |-> h, query |-> q,
                     token |-> ExtractTokenText(h, q)]
  /\ UNCHANGED <<gateVars, now, auxVars, tokenVars, browser, pathVars, limVars, logged>>

\* the caller has the token; the next request is looked at
ExtractReturn ==
  /\ extracted.called
  /\ extracted' = NoExtract
  /\ UNCHANGED <<gateVars, now, auxVars, tokenVars, browser, pathVars, limVars, logged>>

(***************************************************************************)
(* Service names.  A name is a sequence of atoms; the atom ".service"      *)
(* stands for those eight characters, the other atoms for text that does   *)
(* not contain them.                                                       *)
(***************************************************************************)
MaxNameLen == 2

SvcAtoms == {"nginx", "x", ".service"}

ServiceNames == UNION {[1..n -> SvcAtoms] : n \in 1..MaxNameLen}

\* strings.TrimSuffix(name, ".service")
TrimSuffix(name) ==
  IF Len(name) > 0 /\ name[Len(name)] = ".service"
  THEN SubSeq(name, 1, Len(name) - 1)
  ELSE name

\* strings.HasSuffix(name, ".service")
HasSuffix(name) == Len(name) > 0 /\ name[Len(name)] = ".service"

Range(seq) == {seq[i] : i \in DOMAIN seq}

(***************************************************************************)
(* systemd.Manager (unnamed/part_006)                                      *)
(***************************************************************************)
NewManager(allowedServices) == Range(allowedServices)

\* IsAllowed matching an allowed name as a leading part of the requested one
ManagerIsAllowedByPrefix(allowed, name) ==
  \E s \in allowed : Len(s) <= Len(name) /\ SubSeq(name, 1, Len(s)) = s

\* Manager.IsAllowed
ManagerIsAllowed(allowed, name) == TrimSuffix(name) \in allowed

UnitName(name) == IF HasSuffix(name) THEN name ELSE Append(name, ".service")

(***************************************************************************)
(* Tasks: config.DefaultTasks and tasks.Manager (unnamed/part_009).  A     *)
(* task name is a sequence of atoms, like a service name; a command is an  *)
(* opaque string.                                                          *)
(***************************************************************************)
Task(name, command, dangerous) ==
  [Name |-> name, Command |-> command, Dangerous |-> dangerous]

NoTask == Task(<<>>, "", FALSE)

DefaultTasks ==
  LET all == { Task(<<"apt-update">>,  "apt update",            FALSE),
               Task(<<"apt-upgrade">>, "apt upgrade -y",        FALSE),
               Task(<<"df">>,          "df -h",                 FALSE),
               Task(<<"free">>,        "free -m",               FALSE),
               Task(<<"uptime">>,      "uptime",                FALSE),
               Task(<<"who">>,         "who",                   FALSE),
               Task(<<"pi-temp">>,     "vcgencmd measure_temp", FALSE),
               Task(<<"reboot">>,      "reboot",                TRUE) }
  IN [n \in {t.Name : t \in all} |-> CHOOSE t \in all : t.Name = n]

TaskAtoms == {"df", "reboot", "x"}

\* c.Param("name") of /api/tasks/:name/run
TaskNames == UNION {[1..n -> TaskAtoms] : n \in 1..MaxNameLen}

\* c.Query("confirm")
ConfirmValues == {"", "true", "yes"}

\* tasks.NewManager
TasksNewManager(tasks) == tasks

\* Get answering for a name that a key of the table begins
ManagerGetByPrefix(m, name) ==
  LET hits == {k \in DOMAIN m : Len(k) <= Len(name) /\ SubSeq(name, 1, Len(k)) = k}
  IN IF hits = {} THEN [ok |-> FALSE, task |-> NoTask]
     ELSE [ok |-> TRUE, task |-> m[CHOOSE k \in hits : TRUE]]

\* tasks.Manager.Get
ManagerGet(m, name) ==
  IF name \in DOMAIN m THEN [ok |-> TRUE, task |-> m[name]]
  ELSE [ok |-> FALSE, task |-> NoTask]

\* what cmd.Run of "bash -c <command>" can come to
ExitOutcomes == {"exit 0", "exit 1", "not started"}

\* tasks.Manager.Run: the command handed to bash and the result; an
\* unsuccessful run is a result, not an error
ManagerRun(m, name, exit) ==
  IF name \notin DOMAIN m
  THEN [ok |-> FALSE, command |-> "", success |-> FALSE]
  ELSE [ok |-> TRUE, command |-> m[name].Command, success |-> exit = "exit 0"]

\* RunTask letting a dangerous task through unconfirmed
ConfirmationNeverMissing(task, confirm) == FALSE

\* RunTask: the task is dangerous and the request does not carry confirm=true
ConfirmationMissing(task, confirm) == task.Dangerous /\ confirm # "true"

(***************************************************************************)
(* config.Load (config/config.go)                                          *)
(***************************************************************************)
DefaultAllowedServices ==
  << <<"routerctl-agent">>, <<"hivedeck-agent">>, <<"docker">>, <<"nginx">>,
     <<"ssh">>, <<"tailscaled">> >>

\* A path is a sequence of atoms: "/" and "." are those characters, every
\* other atom stands for text containing neither.
DefaultAllowedPaths ==
  << <<"/", "var", "/", "log">>, <<"/", "etc">>, <<"/", "home">>,
     <<"/", "opt">>, <<"/", "tmp">> >>

\* getEnvSlice: an unset or empty variable yields the default
getEnvSlice(value, default) == IF value # <<>> THEN value ELSE default

Load(e) ==
  LET base == [APIKey          |-> e.API_KEY,
               JWTSecret       |-> e.JWT_SECRET,
               RateLimitRPS    |-> RateLimitRPS,
               AllowedServices |-> getEnvSlice(e.ALLOWED_SERVICES, DefaultAllowedServices),
               AllowedPaths    |-> getEnvSlice(e.ALLOWED_PATHS, DefaultAllowedPaths),
               AllowedTasks    |-> DefaultTasks,
               AllowedOrigins  |-> getEnvSlice(e.ALLOWED_ORIGINS, <<"*">>),
               SetupMode       |-> FALSE]
  IN IF base.APIKey = "" THEN [base EXCEPT !.SetupMode = TRUE]
     ELSE IF base.JWTSecret = "" THEN [base EXCEPT !.JWTSecret = base.APIKey]
     ELSE base

\* config.LoadWithDefaults, the configuration the tests construct directly
LoadWithDefaults ==
  [APIKey |-> "k1", JWTSecret |-> "j1", RateLimitRPS |-> RateLimitRPS,
   AllowedServices |-> << <<"x">> >>,
   AllowedPaths |-> << <<"/", "tmp">>, <<"/", "var", "/", "log">> >>,
   AllowedTasks |-> DefaultTasks, AllowedOrigins |-> <<"*">>,
   SetupMode |-> FALSE]


(***************************************************************************)
(* RateLimiter (internal/server middleware)                                *)
(***************************************************************************)
Window == TicksPerSecond   \* NewRateLimiter: window = time.Second

\* the loop keeping a timestamp that lies exactly at windowStart
RecentInclusive(stamps, t) ==
  LET NotBefore(x) == x >= t - Window IN SelectSeq(stamps, NotBefore)

\* the timestamps kept by the "clean old requests" loop: t.After(windowStart)
Recent(stamps, t) == LET After(x) == x > t - Window IN SelectSeq(stamps, After)

\* Allow denying only above the limit
AllowAboveLimit(stamps, limit, t) ==
  LET recent == Recent(stamps, t)
  IN IF Len(recent) > limit
     THEN [ok |-> FALSE, stamps |-> recent]
     ELSE [ok |-> TRUE, stamps |-> Append(recent, t)]

\* Allow recording the time of a denied call as well
AllowRecordingDenied(stamps, limit, t) ==
  LET recent == Recent(stamps, t)
  IN [ok |-> Len(recent) < limit, stamps |-> Append(recent, t)]

\* RateLimiter.Allow: the decision and the new timestamp list of the key
Allow(stamps, limit, t) ==
  LET recent == Recent(stamps, t)
  IN IF Len(recent) >= limit
     THEN [ok |-> FALSE, stamps |-> recent]
     ELSE [ok |-> TRUE, stamps |-> Append(recent, t)]

(***************************************************************************)
(* Routes and the middleware chain (Server.setupMiddleware / setupRoutes)  *)
(***************************************************************************)
ClientIPs == {"10.0.0.1", "10.0.0.2"}

(***************************************************************************)
(* RateLimiter.Allow called from several goroutines.  A call takes the     *)
(* mutex, reads the clock and the key's timestamps, stores the new list    *)
(* and releases the mutex when it returns.                                 *)
(***************************************************************************)
MaxCallers  == 2   \* goroutines calling Allow
MaxCalls    == 3   \* Allow calls made in one run
MaxCapacity == 2   \* the largest limit a limiter is built with

Goroutines == 1..MaxCallers

NoHolder == 0

IdleCaller == [pc |-> "idle", key |-> "", at |-> 0, ok |-> FALSE, stamps |-> <<>>]

NoCallers == [g \in Goroutines |-> IdleCaller]

\* the mutex handed out whether or not it is held
CanLockAlways(m) == TRUE

\* sync.Mutex.Lock returns only when no goroutine holds the mutex
CanLock(m) == m = NoHolder

\* the assignment storing one list under every key
StoreUnderAll(reqs, key, stamps) == [k \in DOMAIN reqs |-> stamps]

\* rl.requests[key] = ...
Store(reqs, key, stamps) == [reqs EXCEPT ![key] = stamps]

\* calls begun and not yet recorded
InFlight ==
  Cardinality({g \in Goroutines : callers[g].pc \in {"lock", "clean", "record"}})

\* a goroutine calls Allow(key)
AllowEnter ==
  /\ Len(log) + InFlight < MaxCalls
  /\ \E g \in Goroutines, key \in ClientIPs :
       /\ callers[g].pc = "idle"
       /\ callers' = [callers EXCEPT ![g] = [IdleCaller EXCEPT !.pc = "lock", !.key = key]]
  /\ UNCHANGED <<gateVars, now, auxVars, mu, log, tokenVars, browser, pathVars, textVars>>

\* rl.mu.Lock()
AllowLock ==
  /\ \E g \in Goroutines :
       /\ callers[g].pc = "lock"
       /\ CanLock(mu)
       /\ mu' = g
       /\ callers' = [callers EXCEPT ![g].pc = "clean"]
  /\ UNCHANGED <<gateVars, now, auxVars, log, tokenVars, browser, pathVars, textVars>>

\* now := time.Now(), the loop over rl.requests[key] and the comparison
\* with rl.limit
AllowClean ==
  /\ \E g \in Goroutines :
       /\ callers[g].pc = "clean"
       /\ LET res == Allow(requests[callers[g].key], cfg.RateLimitRPS, now)
          IN callers' = [callers EXCEPT ![g].pc = "record", ![g].at = now,
                                        ![g].ok = res.ok, ![g].stamps = res.stamps]
  /\ UNCHANGED <<gateVars, now, auxVars, mu, log, tokenVars, browser, pathVars, textVars>>

\* rl.requests[key] = recent, or append(recent, now); the result is fixed
AllowRecord ==
  /\ \E g \in Goroutines :
       /\ callers[g].pc = "record"
       /\ requests' = Store(requests, callers[g].key, callers[g].stamps)
       /\ log' = Append(log, [by |-> g, key |-> callers[g].key,
                               at |-> callers[g].at, ok |-> callers[g].ok])
       /\ callers' = [callers EXCEPT ![g].pc = "unlock"]
  /\ UNCHANGED <<env, cfg, auth, svcAllowed, setupRoutes, req, now, auxVars, mu,
                 tokenVars, browser, pathVars, textVars>>

\* defer rl.mu.Unlock()
AllowUnlock ==
  /\ \E g \in Goroutines :
       /\ callers[g].pc = "unlock"
       /\ mu' = IF mu = g THEN NoHolder ELSE mu
       /\ callers' = [callers EXCEPT ![g] = IdleCaller]
  /\ UNCHANGED <<gateVars, now, auxVars, log, tokenVars, browser, pathVars, textVars>>

\* the limiter registered ahead of the CORS stage
GlobalChainLimiterFirst == <<"recovery", "logger", "ratelimit", "cors">>

\* setupMiddleware: router.Use in this order
GlobalChain == <<"recovery", "logger", "cors", "ratelimit">>

\* the routes of the model: method, path, whether in the /api group, handler
ApiRoutes ==
  { [method |-> "GET",  path |-> "/api/settings",               handler |-> "GetSettings"],
    [method |-> "POST", path |-> "/api/settings/api-key",       handler |-> "SaveKey"],
    [method |-> "POST", path |-> "/api/services/:name/start",   handler |-> "StartService"],
    [method |-> "POST", path |-> "/api/services/:name/stop",    handler |-> "StopService"],
    [method |-> "POST", path |-> "/api/services/:name/restart", handler |-> "RestartService"],
    [method |-> "POST", path |-> "/api/tasks/:name/run",        handler |-> "RunTask"],
    [method |-> "POST", path |-> "/api/processes/:pid/kill",    handler |-> "KillProcess"],
    [method |-> "GET",  path |-> "/api/events",                 handler |-> "StreamEvents"] }

SetupGroup ==
  { [method |-> "POST", path |-> "/setup/save", handler |-> "SaveKey"] }

OpenRoutes ==
  { [method |-> "GET", path |-> "/health",   handler |-> "HealthCheck"],
    [method |-> "GET", path |-> "/settings", handler |-> "SettingsPage"] }

\* setupRoutes: the /setup group exists only when cfg.SetupMode held at New
Routes(setup) == OpenRoutes \cup ApiRoutes \cup (IF setup THEN SetupGroup ELSE {})

Match(setup, method, path) ==
  {r \in Routes(setup) : r.method = method /\ r.path = path}

\* the chain with the /api group's authentication registered ahead of the limiter
ChainAuthBeforeLimiter(setup, method, path) ==
  LET m == Match(setup, method, path)
  IN IF m = {} THEN GlobalChain \o <<"NoRoute">>
     ELSE LET r == CHOOSE x \in m : TRUE
          IN IF r \in ApiRoutes
             THEN <<"recovery", "logger", "cors", "auth", "ratelimit", r.handler>>
             ELSE GlobalChain \o <<r.handler>>

\* the handlers gin runs for a request, in order
Chain(setup, method, path) ==
  LET m == Match(setup, method, path)
  IN IF m = {} THEN GlobalChain \o <<"NoRoute">>
     ELSE LET r == CHOOSE x \in m : TRUE
          IN IF r \in ApiRoutes
             THEN GlobalChain \o <<"auth", r.handler>>
             ELSE GlobalChain \o <<r.handler>>


(***************************************************************************)
(* files.Browser construction (unnamed/part_007) and server.New            *)
(***************************************************************************)
Wildcard == <<"*">>

NewBrowser(allowedPaths) ==
  LET allowAll == \E i \in DOMAIN allowedPaths : allowedPaths[i] = Wildcard
  IN [allowedPaths |-> IF ~allowAll /\ Len(allowedPaths) = 0
                       THEN DefaultAllowedPaths ELSE allowedPaths,
      allowAll     |-> allowAll]

\* NewHandlers: fileBrowser: files.NewBrowser(nil)
HandlersBrowser(c) == NewBrowser(<<>>)

\* NewHandlers: serviceManager: systemd.NewManager(cfg.AllowedServices)
HandlersServiceManager(c) == NewManager(c.AllowedServices)

\* NewHandlers: taskManager: tasks.NewManager(cfg.AllowedTasks); the manager
\* holds the map of the Config itself
HandlersTaskManager(c) == TasksNewManager(c.AllowedTasks)

\* server.New: auth := NewAuthService(cfg.APIKey, cfg.JWTSecret)
ServerAuth(c) == NewAuthService(c.APIKey, c.JWTSecret)

(***************************************************************************)
(* The request context                                                     *)
(***************************************************************************)
NoName == <<>>

\* the Access-Control-* headers of a response: none set
NoCors == [AllowOrigin |-> "", Fixed |-> FALSE]

Idle ==
  [stage |-> "idle", method |-> "", path |-> "", hdr |-> NoHeader,
   query |-> EmptyTok, ip |-> "", idx |-> 0, ran |-> <<>>, status |-> 0,
   authMethod |-> "", claims |-> NoClaims, name |-> NoName, unit |-> NoName,
   action |-> "", msg |-> NoName, saved |-> "", body |-> <<>>, confirm |-> "",
   cmd |-> "", pid |-> "", signalled |-> FALSE, origin |-> "", cors |-> NoCors,
   written |-> FALSE, panic |-> "", key |-> ""]

NewRequest(method, path, hdr, query, ip) ==
  [Idle EXCEPT !.stage = "run", !.method = method, !.path = path, !.hdr = hdr,
               !.query = query, !.ip = ip, !.idx = 1]

\* the handler gin is about to run for the request
Cur(r) == Chain(setupRoutes, r.method, r.path)[r.idx]

At(name) == req.stage = "run" /\ Cur(req) = name

\* c.Next(): the stage returns after handing over to the rest of the chain
PassOn(r, name) == [r EXCEPT !.idx = @ + 1, !.ran = Append(@, name)]

\* c.AbortWithStatus / c.JSON at the end of the chain: the response is final
Finish(r, name, status) ==
  [r EXCEPT !.stage = "done", !.status = status, !.ran = Append(@, name),
            !.body = <<"json">>]

\* c.AbortWithStatus: the status alone, no body
Abort(r, name, status) == [Finish(r, name, status) EXCEPT !.body = <<>>]


(***************************************************************************)
(* The middleware chain                                                    *)
(***************************************************************************)
nonGate == <<services, issued, verdict, browser, fileOp, limVars, textVars, auxVars>>

\* a request arrives; Targets, Creds and IPs are the inputs a specification draws
Receive(Targets, Creds, IPs) ==
  /\ req.stage = "idle"
  /\ \E t \in Targets, c \in Creds, ip \in IPs :
       req' = NewRequest(t.method, t.path, c.hdr, c.query, ip)
  /\ UNCHANGED <<env, cfg, auth, svcAllowed, setupRoutes, requests, now, nonGate>>

RecoveryMiddleware ==
  /\ At("recovery")
  /\ req' = PassOn(req, "recovery")
  /\ UNCHANGED <<env, cfg, auth, svcAllowed, setupRoutes, requests, now, nonGate>>

LoggerMiddleware ==
  /\ At("logger")
  /\ req' = PassOn(req, "logger")
  /\ UNCHANGED <<env, cfg, auth, svcAllowed, setupRoutes, requests, now, nonGate>>

\* c.GetHeader("Origin")
Origins == {"", "http://allowed.com", "http://not-allowed.com"}

\* the headers with every Origin echoed back
CorsHeadersEchoAll(allowedOrigins, origin) ==
  [AllowOrigin |-> IF allowedOrigins = <<"*">> THEN "*" ELSE origin, Fixed |-> TRUE]

\* the Access-Control-* headers CORSMiddleware sets for an Origin
CorsHeaders(allowedOrigins, origin) ==
  LET allowAll == Len(allowedOrigins) = 1 /\ allowedOrigins[1] = "*"
  IN [AllowOrigin |-> IF allowAll THEN "*"
                      ELSE IF origin \in Range(allowedOrigins) THEN origin
                      ELSE "",
      Fixed |-> TRUE]

CORSMiddleware ==
  /\ At("cors")
  /\ \E origin \in Origins :
       LET r == [req EXCEPT !.origin = origin,
                            !.cors = CorsHeaders(cfg.AllowedOrigins, origin)]
       IN req' = IF req.method = "OPTIONS"
                 THEN Abort(r, "cors", 204)
                 ELSE PassOn(r, "cors")
  /\ UNCHANGED <<env, cfg, auth, svcAllowed, setupRoutes, requests, now, nonGate>>

RateLimitMiddleware ==
  /\ At("ratelimit")
  /\ LET res == Allow(requests[req.ip], cfg.RateLimitRPS, now)
     IN /\ requests' = [requests EXCEPT ![req.ip] = res.stamps]
        /\ req' = IF res.ok
                  THEN PassOn(req, "ratelimit")
                  ELSE Finish(req, "ratelimit", 429)
  /\ UNCHANGED <<env, cfg, auth, svcAllowed, setupRoutes, now, nonGate>>

\* AuthMiddleware trying the session token before the shared secret
AuthDecisionJwtOnly(a, token, t) ==
  IF token = EmptyTok \/ ~ValidateToken(a, token, t).ok
  THEN [pass |-> FALSE, method |-> "", claims |-> NoClaims]
  ELSE [pass |-> TRUE, method |-> "jwt", claims |-> ClaimsOf(token)]

\* the outcome of AuthMiddleware for an extracted token
AuthDecision(a, token, t) ==
  IF token = EmptyTok
  THEN [pass |-> FALSE, method |-> "", claims |-> NoClaims]
  ELSE IF ValidateAPIKey(a, token)
  THEN [pass |-> TRUE, method |-> "api_key", claims |-> NoClaims]
  ELSE IF ~ValidateToken(a, token, t).ok
  THEN [pass |-> FALSE, method |-> "", claims |-> NoClaims]
  ELSE [pass |-> TRUE, method |-> "jwt", claims |-> ClaimsOf(token)]

AuthMiddleware ==
  /\ At("auth")
  /\ LET d == AuthDecision(auth, ExtractToken(req.hdr, req.query), now)
     IN req' = IF d.pass
               THEN [PassOn(req, "auth") EXCEPT !.authMethod = d.method,
                                                !.claims = d.claims]
               ELSE Finish(req, "auth", 401)
  /\ UNCHANGED <<env, cfg, auth, svcAllowed, setupRoutes, requests, now, nonGate>>

(***************************************************************************)
(* Handlers                                                                *)
(***************************************************************************)
\* a handler that only reports: HealthCheck, SettingsPage, GetSettings
Reports(name, status) ==
  /\ At(name)
  /\ req' = Finish(req, name, status)
  /\ UNCHANGED <<env, cfg, auth, svcAllowed, setupRoutes, requests, now, nonGate>>

HealthCheck  == Reports("HealthCheck", 200)
SettingsPage == Reports("SettingsPage", 200)
GetSettings  == Reports("GetSettings", 200)
NoRoute      == Reports("NoRoute", 404)

KeyInputs == {"", "short", "k1", "k2"}

\* SaveAPIKey leaving the in-memory key as it was
SaveAPIKeyFileOnly(c, apiKey) == [c EXCEPT !.SetupMode = FALSE]

\* Config.SaveAPIKey after a successful UpdateEnvFile
SaveAPIKey(c, apiKey) ==
  [c EXCEPT !.APIKey = apiKey, !.JWTSecret = apiKey, !.SetupMode = FALSE]

\* SaveKey refusing only a missing key
KeyRejectedIfMissing(key) == key = ""

\* SaveKey: binding:"required" fails for a missing or empty api_key, and a
\* key of fewer than 32 characters is refused
KeyRejected(key) == key = "" \/ StrLen(key) < MinKeyLen

\* SetupHandlers.SaveKey; writeOk is whether os.WriteFile succeeds
SaveKey ==
  /\ At("SaveKey")
  /\ \E key \in KeyInputs, writeOk \in BOOLEAN :
       IF KeyRejected(key)
       THEN /\ req' = [Finish(req, "SaveKey", 400) EXCEPT !.key = key]
            /\ UNCHANGED <<env, cfg>>
       ELSE IF ~writeOk
       THEN /\ req' = [Finish(req, "SaveKey", 500) EXCEPT !.key = key]
            /\ UNCHANGED <<env, cfg>>
       ELSE /\ env' = [env EXCEPT !.API_KEY = key]
            /\ cfg' = SaveAPIKey(cfg, key)
            /\ req' = [Finish(req, "SaveKey", 200) EXCEPT !.saved = key, !.key = key]
  /\ UNCHANGED <<auth, svcAllowed, setupRoutes, requests, now, nonGate>>

\* what Manager.doAction can come to once the service is allowed
SystemdOutcomes == {"connect failed", "call failed", "done", "failed",
                    "timed out", "cancelled"}

\* Manager.doAction followed by the handler's mapping to a status
ServiceHandler(handler, action) ==
  /\ At(handler)
  /\ \E name \in ServiceNames, outcome \in SystemdOutcomes :
       IF ~ManagerIsAllowed(svcAllowed, name)
       THEN req' = [Finish(req, handler, 403) EXCEPT !.name = name, !.msg = name]
       ELSE IF outcome = "connect failed"
       THEN req' = [Finish(req, handler, 500) EXCEPT !.name = name]
       ELSE req' = [Finish(req, handler, IF outcome = "done" THEN 200 ELSE 403)
                      EXCEPT !.name = name, !.unit = UnitName(name),
                             !.action = action]
  /\ UNCHANGED <<env, cfg, auth, svcAllowed, setupRoutes, requests, now, nonGate>>

StartService   == ServiceHandler("StartService", "start")
StopService    == ServiceHandler("StopService", "stop")
RestartService == ServiceHandler("RestartService", "restart")

\* Handlers.RunTask
RunTask ==
  /\ At("RunTask")
  /\ \E name \in TaskNames, confirm \in ConfirmValues, exit \in ExitOutcomes :
       LET m == HandlersTaskManager(cfg)
           g == ManagerGet(m, name)
           r == ManagerRun(m, name, exit)
           q == [req EXCEPT !.name = name, !.confirm = confirm]
       IN IF ~g.ok
          THEN req' = [Finish(q, "RunTask", 404) EXCEPT !.msg = name,
                         !.body = <<"task not found">>]
          ELSE IF ConfirmationMissing(g.task, confirm)
          THEN req' = [Finish(q, "RunTask", 400) EXCEPT !.msg = name,
                         !.body = <<"task is dangerous, add ?confirm=true to execute">>]
          ELSE IF ~r.ok
          THEN req' = [Finish(q, "RunTask", 500) EXCEPT !.body = <<"task not found">>]
          ELSE req' = [Finish(q, "RunTask", 200) EXCEPT !.cmd = r.command]
  /\ UNCHANGED <<env, cfg, auth, svcAllowed, setupRoutes, requests, now, nonGate>>

\* c.Param("pid"): not a number, the pid of a running process, a pid that no
\* process has
PidTexts == {"abc", "7", "9"}

\* strconv.ParseInt(pidStr, 10, 32)
ParseInt(text) ==
  CASE text = "7" -> [ok |-> TRUE, pid |-> 7]
    [] text = "9" -> [ok |-> TRUE, pid |-> 9]
    [] OTHER      -> [ok |-> FALSE, pid |-> 0]

\* the processes of the host: pid -> name
RunningProcesses == [p \in {7} |-> "sshd"]

\* a manager built with sshd among the allowed process names
ProcessManagerAllowingSshd == {"sshd"}

\* process.NewManager: AllowedProcessNames is empty
ProcessNewManager == {}

\* process.Manager.Kill; signalOk is whether SendSignal succeeds
ManagerKill(allowed, pid, signalOk) ==
  IF pid \notin DOMAIN RunningProcesses
  THEN [success |-> FALSE, message |-> "process not found", signalled |-> FALSE]
  ELSE IF RunningProcesses[pid] \notin allowed
  THEN [success |-> FALSE, message |-> "killing process is not allowed",
        signalled |-> FALSE]
  ELSE IF ~signalOk
  THEN [success |-> FALSE, message |-> "failed to kill process", signalled |-> TRUE]
  ELSE [success |-> TRUE, message |-> "signal sent", signalled |-> TRUE]

\* Handlers.KillProcess
KillProcess ==
  /\ At("KillProcess")
  /\ \E text \in PidTexts, signalOk \in BOOLEAN :
       LET n == ParseInt(text)
           k == ManagerKill(ProcessNewManager, n.pid, signalOk)
           q == [req EXCEPT !.pid = text]
       IN IF ~n.ok
          THEN req' = [Finish(q, "KillProcess", 400) EXCEPT !.body = <<"invalid pid">>]
          ELSE req' = [Finish(q, "KillProcess", IF k.success THEN 200 ELSE 403)
                         EXCEPT !.body = <<k.message>>, !.signalled = k.signalled]
  /\ UNCHANGED <<env, cfg, auth, svcAllowed, setupRoutes, requests, now, nonGate>>

\* Handlers.StreamEvents: c.Stream sends an event at each tick of its ticker
\* and returns when the request's context is done
StreamEvents ==
  /\ At("StreamEvents")
  /\ \/ /\ ~req.written
        /\ req' = [req EXCEPT !.written = TRUE, !.status = 200,
                              !.body = <<"metrics event">>]
     \/ req' = [Finish(req, "StreamEvents", 200) EXCEPT !.body = req.body]
  /\ UNCHANGED <<env, cfg, auth, svcAllowed, setupRoutes, requests, now, nonGate>>

PanicValues == {"test panic"}

\* the handler of the request panics
Panic ==
  /\ req.stage = "run"
  /\ Cur(req) \in {r.handler : r \in Routes(setupRoutes)}
  /\ \E v \in PanicValues :
       req' = [req EXCEPT !.stage = "panic", !.panic = v, !.ran = Append(@, Cur(req))]
  /\ UNCHANGED <<env, cfg, auth, svcAllowed, setupRoutes, requests, now, nonGate>>

\* the recovery answering with the panic value
RecoveredBodyEcho(v) == v

\* RecoveryMiddleware: the body of the answer to a recovered panic
RecoveredBody(v) == "internal server error"

\* c.AbortWithStatusJSON: once part of the response is written the status
\* sent stays and the object is added to the body
AbortWithStatusJSON(r, status, text) ==
  [r EXCEPT !.stage = "done",
            !.status = IF r.written THEN @ ELSE status,
            !.body = Append(IF r.written THEN @ ELSE <<>>, text)]

\* RecoveryMiddleware: the deferred function, run when a later handler panicked
Recover ==
  /\ req.stage = "panic"
  /\ logged' = logged \cup {req.panic}
  /\ req' = AbortWithStatusJSON(req, 500, RecoveredBody(req.panic))
  /\ UNCHANGED <<env, cfg, auth, svcAllowed, setupRoutes, requests, now, auxVars,
                 services, issued, verdict, browser, fileOp, limVars, extracted>>

\* the response has been written; the worker is free for the next request
Reply ==
  /\ req.stage = "done"
  /\ req' = Idle
  /\ UNCHANGED <<env, cfg, auth, svcAllowed, setupRoutes, requests, now, nonGate>>

Tick ==
  /\ now < MaxTime
  /\ now' = now + 1
  /\ UNCHANGED <<gateVars, nonGate>>

\* the process is restarted: main runs config.Load and server.New again
Restart ==
  /\ req.stage = "idle"
  /\ LET c == Load(env)
     IN /\ cfg' = c
        /\ auth' = ServerAuth(c)
        /\ svcAllowed' = HandlersServiceManager(c)
        /\ browser' = HandlersBrowser(c)
        /\ setupRoutes' = c.SetupMode
  /\ requests' = [ip \in ClientIPs |-> <<>>]
  /\ logged' = {}
  /\ UNCHANGED <<env, req, now, auxVars, services, issued, verdict, fileOp, limVars, extracted>>


(***************************************************************************)
(* Start-up                                                                *)
(***************************************************************************)
EmptyEnv ==
  [API_KEY |-> "", JWT_SECRET |-> "", ALLOWED_SERVICES |-> <<>>,
   ALLOWED_PATHS |-> <<>>, ALLOWED_ORIGINS |-> <<>>]

NoIssue == [by |-> 0, role |-> "", ttl |-> 0, at |-> 0, tok |-> EmptyTok]

NoVerdict == [svc |-> 0, of |-> NoIssue, at |-> 0, ok |-> FALSE, err |-> "",
              claims |-> NoClaims]

NoFileOp == [op |-> "", path |-> <<>>, allowed |-> FALSE, status |-> 0,
             acted |-> <<>>]

\* Server.Run has started ListenAndServe and no signal has arrived
Serving == [listening |-> TRUE, shutdown |-> "none", grace |-> 0, exited |-> FALSE]

\* no log stream has been opened
NoStream == [handler |-> "none", ctx |-> "none", proc |-> "none",
             scanner |-> "none", killer |-> "none", entryChan |-> 0,
             emitted |-> 0]

\* no cache has been built
NoCache == [op |-> "", ttl |-> 0, items |-> <<>>, written |-> <<>>, got |-> <<>>]

\* no settings update has been made and nothing has been read
NoLists == [paths |-> <<>>, services |-> <<>>]

NoUpdate == [pc |-> "idle", paths |-> <<>>, services |-> <<>>,
             before |-> NoLists, read |-> FALSE, seen |-> NoLists,
             checked |-> FALSE, manager |-> {}, status |-> 0]

\* the state once main has run server.New on configuration c
Boot(e, c) ==
  /\ env = e
  /\ cfg = c
  /\ auth = ServerAuth(c)
  /\ svcAllowed = HandlersServiceManager(c)
  /\ browser = HandlersBrowser(c)
  /\ setupRoutes = c.SetupMode
  /\ requests = [ip \in ClientIPs |-> <<>>]
  /\ now = 0
  /\ req = Idle
  /\ mu = NoHolder
  /\ callers = NoCallers
  /\ log = <<>>
  /\ extracted = NoExtract
  /\ logged = {}
  /\ srv = Serving
  /\ stream = NoStream
  /\ cache = NoCache
  /\ upd = NoUpdate

\* no token has been issued or verified
TokenIdle == services = <<>> /\ issued = NoIssue /\ verdict = NoVerdict

\* no file handler has been called
PathIdle == fileOp = NoFileOp

(***************************************************************************)
(* Spec: the request gate.  Deployments differ in the secrets of the .env  *)
(* file; requests carry every kind of credential.                          *)
(***************************************************************************)
GateEnvs ==
  { [EmptyEnv EXCEPT !.API_KEY = k, !.JWT_SECRET = j] :
      k \in {"", "k1"}, j \in {"", "j1"} }

LateExp == MaxTime + 1

GateTokens ==
  {RawTok("k1"), RawTok("k2"), RawTok("bad")}
    \cup {Jwt("HS256", k, "admin", Issuer, 0, e) :
            k \in {"", "k1", "j1"}, e \in {1, LateExp}}
    \cup {Jwt("RS256", "j1", "admin", Issuer, 0, LateExp)}

Cred(hdr, query) == [hdr |-> hdr, query |-> query]

GateCreds ==
  {Cred(NoHeader, EmptyTok)}
    \cup {Cred(BearerHdr(t), EmptyTok) : t \in GateTokens}
    \cup {Cred(RawHdr(RawTok("k1")), EmptyTok),
          Cred(NoHeader, RawTok("k1")),
          Cred(BearerHdr(RawTok("bad")), RawTok("k1"))}

Target(method, path) == [method |-> method, path |-> path]

GateTargets ==
  {Target("GET", "/health"), Target("GET", "/settings"),
   Target("POST", "/setup/save"), Target("GET", "/api/settings"),
   Target("POST", "/api/settings/api-key"),
   Target("OPTIONS", "/api/settings"), Target("GET", "/api/nope"),
   Target("GET", "/api/events")}

GateIPs == {"10.0.0.1"}

Init == TokenIdle /\ PathIdle /\ \E e \in GateEnvs : Boot(e, Load(e))

Next ==
  \/ Receive(GateTargets, GateCreds, GateIPs)
  \/ RecoveryMiddleware
  \/ LoggerMiddleware
  \/ CORSMiddleware
  \/ RateLimitMiddleware
  \/ AuthMiddleware
  \/ HealthCheck
  \/ SettingsPage
  \/ GetSettings
  \/ NoRoute
  \/ SaveKey
  \/ StreamEvents
  \/ Panic
  \/ Recover
  \/ Reply
  \/ Tick
  \/ Restart

Spec == Init /\ [][Next]_vars

(***************************************************************************)
(* SpecSvc: the service handlers behind the gate.  Deployments differ in   *)
(* the service allow-list; requests name every service of the bound.       *)
(***************************************************************************)
SvcLists ==
  { <<>>,
    << <<"x">> >>,
    << <<"nginx">>, <<"x", ".service">> >> }

SvcEnvs ==
  { [EmptyEnv EXCEPT !.API_KEY = "k1", !.ALLOWED_SERVICES = l] : l \in SvcLists }

SvcCreds == {Cred(NoHeader, EmptyTok), Cred(BearerHdr(RawTok("k1")), EmptyTok)}

SvcTargets ==
  {Target("POST", "/api/services/:name/start"),
   Target("POST", "/api/services/:name/stop"),
   Target("POST", "/api/services/:name/restart"),
   Target("POST", "/api/processes/:pid/kill")}

\* config.Load, or a Config built directly with an empty service list
InitSvc ==
  /\ TokenIdle /\ PathIdle
  /\ \/ \E e \in SvcEnvs : Boot(e, Load(e))
     \/ Boot(EmptyEnv, [LoadWithDefaults EXCEPT !.AllowedServices = <<>>])

NextSvc ==
  \/ Receive(SvcTargets, SvcCreds, GateIPs)
  \/ RecoveryMiddleware
  \/ LoggerMiddleware
  \/ CORSMiddleware
  \/ RateLimitMiddleware
  \/ AuthMiddleware
  \/ StartService
  \/ StopService
  \/ RestartService
  \/ KillProcess
  \/ Reply
  \/ Tick

SpecSvc == InitSvc /\ [][NextSvc]_vars


(***************************************************************************)
(* Claims about the request gate (Spec)                                    *)
(***************************************************************************)
Last(seq) == seq[Len(seq)]

IsPrefixOf(p, q) == Len(p) <= Len(q) /\ SubSeq(q, 1, Len(p)) = p

\* the stages of a request that ran, without recovery and logging
Stages(r) == LET Staged(x) == x \notin {"recovery", "logger"} IN SelectSeq(r.ran, Staged)

ApiRouteOf(r) == {x \in ApiRoutes : x.method = r.method /\ x.path = r.path}

Presented(r) == ExtractToken(r.hdr, r.query)

\* the step taken is the authentication stage of the request in flight
AuthStep == At("auth") /\ req' # req /\ req'.stage # "panic"

\* C1: on an /api route the stages run in the order CORS, rate limit,
\* authentication, handler, each one only after the previous one passed the
\* request on; a request the limiter denies ends as 429 with no
\* authentication stage run, whatever token it carries.
C1_StageOrder ==
  (req.stage # "idle" /\ ApiRouteOf(req) # {}) =>
    LET h == (CHOOSE x \in ApiRouteOf(req) : TRUE).handler
    IN /\ IsPrefixOf(Stages(req), <<"cors", "ratelimit", "auth", h>>)
       /\ (h \in Range(req.ran) => req.authMethod \in {"api_key", "jwt"})
       /\ (req.stage = "done" /\ Last(req.ran) = "ratelimit" => req.status = 429)
       /\ (req.status = 429 =>
             Last(req.ran) = "ratelimit" /\ "auth" \notin Range(req.ran))

\* an over-quota request carrying the valid shared secret was answered 429
C1_Witness ==
  /\ req.stage = "done" /\ req.status = 429 /\ ApiRouteOf(req) # {}
  /\ Presented(req) = RawTok(auth.apiKey)

\* C2: the authentication stage passes the request on iff the extracted
\* token is non-empty and (a) equals the stored shared secret, marked
\* api_key with no claims, or (b) failing (a), verifies as a session token,
\* marked jwt with its claims; otherwise 401 and the chain stops.
C2_AuthIff ==
  [][AuthStep =>
       LET tok == Presented(req)
           a   == tok # EmptyTok /\ tok = RawTok(auth.apiKey)
           b   == ~a /\ tok # EmptyTok /\ ValidateToken(auth, tok, now).ok
       IN /\ (a \/ b) <=> (req'.stage = "run" /\ req'.idx = req.idx + 1)
          /\ a => req'.authMethod = "api_key" /\ req'.claims = NoClaims
          /\ b => req'.authMethod = "jwt" /\ req'.claims = ClaimsOf(tok)
          /\ ~(a \/ b) => /\ req'.stage = "done" /\ req'.status = 401
                          /\ Last(req'.ran) = "auth"
                          /\ req'.authMethod = ""]_vars

\* a session token was let through to the handler, with its claims attached
C2_Witness ==
  /\ req.stage = "done" /\ req.status = 200 /\ req.authMethod = "jwt"
  /\ req.claims.role = "admin" /\ auth.apiKey # ""

\* C3: while the agent is in setup mode no request passes authentication
C3_SetupModeLocked ==
  cfg.SetupMode => req.authMethod = ""

\* C4, as claimed: every authentication check validates against the secret
\* most recently saved (Config.APIKey)
C4_ValidatesSavedKey ==
  [][AuthStep /\ cfg.APIKey # "" =>
       LET tok == Presented(req)
       IN /\ tok = RawTok(cfg.APIKey) => req'.authMethod = "api_key"
          /\ (tok.kind = "raw" /\ tok # RawTok(cfg.APIKey)) => req'.status = 401]_vars

\* C4, amended: a successful save persists the new secret and stores it in
\* the Config, the running AuthService is left as constructed and keeps
\* deciding by its own copy; only a restart replaces it, by the saved secret.
C4_SavedKeyAfterRestart ==
  [][/\ (req.saved = "" /\ req'.saved # "") =>
          /\ env'.API_KEY = req'.saved /\ cfg'.APIKey = req'.saved
          /\ auth' = auth
     /\ AuthStep =>
          (req'.authMethod = "api_key" <=>
             (Presented(req) # EmptyTok /\ Presented(req) = RawTok(auth.apiKey)))
     /\ auth' # auth => (req.stage = "idle" /\ auth'.apiKey = env.API_KEY)]_vars

\* the saved secret was presented to the running agent and rejected
C4_Witness ==
  /\ req.stage = "done" /\ req.status = 401
  /\ cfg.APIKey # "" /\ Presented(req) = RawTok(cfg.APIKey)
  /\ auth.apiKey # cfg.APIKey


(***************************************************************************)
(* Claims about the service handlers (SpecSvc)                             *)
(***************************************************************************)
\* C7: a start, stop or restart is issued only for a name that, with a
\* trailing .service stripped, equals an entry of the service allow-list;
\* for every other name nothing is issued and the answer is 403 naming the
\* service; with an empty allow-list nothing is ever issued.
C7_OnlyAllowListed ==
  LET list == Range(cfg.AllowedServices)
      bare == IF req.name # NoName /\ Last(req.name) = ".service"
              THEN SubSeq(req.name, 1, Len(req.name) - 1) ELSE req.name
  IN /\ req.action # "" => req.name # NoName /\ bare \in list
     /\ (req.name # NoName /\ bare \notin list) =>
          /\ req.action = "" /\ req.unit = NoName
          /\ req.status = 403 /\ req.msg = req.name
     /\ list = {} => req.action = ""

\* nginx.service was started under an allow-list that holds nginx
C7_Witness ==
  /\ req.stage = "done" /\ req.status = 200 /\ req.action = "start"
  /\ req.name = <<"nginx", ".service">> /\ <<"nginx">> \in Range(cfg.AllowedServices)

(***************************************************************************)
(* SpecToken: two AuthServices issue and verify session tokens while the   *)
(* clock advances.                                                         *)
(***************************************************************************)
TokenSecrets == {"s1", "s2"}

Roles == {"admin", "viewer"}

\* durations handed to GenerateToken, in ticks
TTLs == {-TicksPerSecond, -1, 0, 1, TicksPerSecond, 2 * TicksPerSecond}

Issue ==
  /\ \E i \in DOMAIN services, role \in Roles, ttl \in TTLs :
       issued' = [by |-> i, role |-> role, ttl |-> ttl, at |-> now,
                  tok |-> GenerateToken(services[i], role, ttl, now)]
  /\ verdict' = NoVerdict
  /\ UNCHANGED <<gateVars, now, auxVars, services, browser, fileOp, limVars, textVars>>

Verify ==
  /\ issued # NoIssue
  /\ \E i \in DOMAIN services :
       LET v == ValidateToken(services[i], issued.tok, now)
       IN verdict' = [svc |-> i, of |-> issued, at |-> now, ok |-> v.ok,
                      err |-> v.err,
                      claims |-> IF v.ok THEN ClaimsOf(issued.tok) ELSE NoClaims]
  /\ UNCHANGED <<gateVars, now, auxVars, services, issued, browser, fileOp, limVars, textVars>>

InitToken ==
  /\ Boot(EmptyEnv, Load(EmptyEnv))
  /\ PathIdle
  /\ services \in [1..2 -> {NewAuthService("k1", s) : s \in TokenSecrets}]
  /\ issued = NoIssue
  /\ verdict = NoVerdict

NextToken == Issue \/ Verify \/ Tick

SpecToken == InitToken /\ [][NextToken]_vars

\* the verdict is the issuing service's own
OwnVerdict == verdict.svc # 0 /\ verdict.svc = verdict.of.by

\* C5, as claimed: verification by the issuing service succeeds iff the
\* current time is not after issue time + ttl
C5_ValidUntilExpiry ==
  OwnVerdict => (verdict.ok <=> verdict.at <= verdict.of.at + verdict.of.ttl)

\* C5, amended: verification by the issuing service succeeds iff the current
\* time is strictly before expiresAt, which is issue time + ttl cut down to a
\* whole second; it then returns the issued role and issuer hivedeck-agent;
\* a token issued with a negative ttl never verifies.
C5_ValidBeforeExpiry ==
  OwnVerdict =>
    LET sum       == verdict.of.at + verdict.of.ttl
        expiresAt == (sum \div TicksPerSecond) * TicksPerSecond
    IN /\ verdict.of.tok.exp = expiresAt
       /\ verdict.ok <=> verdict.at < expiresAt
       /\ verdict.ok => /\ verdict.claims.role = verdict.of.role
                        /\ verdict.claims.iss = "hivedeck-agent"
       /\ verdict.of.ttl < 0 => ~verdict.ok

\* a token was verified after issue + ttl was cut down, inside the last second
C5_Witness ==
  /\ OwnVerdict /\ ~verdict.ok /\ verdict.err = "token is expired"
  /\ verdict.of.ttl > 0
  /\ verdict.at < verdict.of.at + verdict.of.ttl

\* C6: a token issued under one signing secret is rejected by a service
\* whose signing secret differs, whatever its claims and the time.
C6_ForeignSecretRejected ==
  (verdict.svc # 0 /\
     services[verdict.svc].jwtSecret # services[verdict.of.by].jwtSecret)
    => ~verdict.ok

\* an unexpired token was refused by the service holding another secret
C6_Witness ==
  /\ verdict.svc # 0 /\ verdict.svc # verdict.of.by
  /\ verdict.at < verdict.of.tok.exp
  /\ ~verdict.ok /\ verdict.err = "signature is invalid"


(***************************************************************************)
(* files.Browser (unnamed/part_007): paths                                 *)
(***************************************************************************)
MaxPathLen == 7

PathAtoms == {"/", ".", "etc", "x"}

Paths == UNION {[1..n -> PathAtoms] : n \in 0..MaxPathLen}

\* the working directory of the service (WorkingDirectory=$INSTALL_DIR)
Cwd == <<"/", "opt">>

DotDot == <<".", ".">>

\* the elements of a path between its separators
RECURSIVE SplitPath(_)
SplitPath(p) ==
  IF p = <<>> THEN << <<>> >>
  ELSE LET rest == SplitPath(Tail(p))
       IN IF Head(p) = "/"
          THEN << <<>> >> \o rest
          ELSE << <<Head(p)>> \o Head(rest) >> \o Tail(rest)

\* filepath.Clean on a rooted path: empty and "." elements are dropped, ".."
\* removes the element before it, and is dropped at the root
RECURSIVE Resolve(_, _)
Resolve(elems, stack) ==
  IF elems = <<>> THEN stack
  ELSE LET e == Head(elems)
       IN Resolve(Tail(elems),
                  IF e = <<>> \/ e = <<".">> THEN stack
                  ELSE IF e = DotDot
                  THEN (IF stack = <<>> THEN stack
                        ELSE SubSeq(stack, 1, Len(stack) - 1))
                  ELSE Append(stack, e))

RECURSIVE JoinPath(_)
JoinPath(stack) ==
  IF stack = <<>> THEN <<>>
  ELSE <<"/">> \o Head(stack) \o JoinPath(Tail(stack))

\* the directory names of a rooted path, outermost first
Components(p) == Resolve(SplitPath(p), <<>>)

Clean(p) ==
  LET stack == Components(p)
  IN IF stack = <<>> THEN <<"/">> ELSE JoinPath(stack)

\* filepath.Abs: a rooted path is cleaned, any other is joined to the
\* working directory
Abs(p) ==
  IF p # <<>> /\ Head(p) = "/" THEN Clean(p) ELSE Clean(Cwd \o <<"/">> \o p)

\* strings.HasPrefix
HasPrefix(s, prefix) ==
  Len(prefix) <= Len(s) /\ SubSeq(s, 1, Len(prefix)) = prefix

\* Browser.IsPathAllowed
IsPathAllowed(b, path) ==
  IF b.allowAll THEN TRUE
  ELSE LET absPath == Clean(Abs(path))
       IN \E i \in DOMAIN b.allowedPaths :
            HasPrefix(absPath, Clean(Abs(b.allowedPaths[i])))

\* Browser.ListDirectory / ReadFile / GetDiskUsage up to the first file
\* system call: the path that is acted on, or denial
BrowserCheck(b, path) ==
  LET absPath == Abs(path)
  IN IF ~IsPathAllowed(b, absPath)
     THEN [allowed |-> FALSE, acted |-> <<>>]
     ELSE [allowed |-> TRUE, acted |-> absPath]

(***************************************************************************)
(* The file handlers (unnamed/part_002)                                    *)
(***************************************************************************)
\* what os.Stat, os.ReadDir, os.Open and filepath.WalkDir can come to
FsOutcomes == {"ok", "error"}

\* the handler after it has read its path parameter
FileHandler(op, path) ==
  \E c \in {BrowserCheck(browser, path)}, fs \in FsOutcomes :
    fileOp' = [op |-> op, path |-> path, allowed |-> c.allowed,
               acted |-> c.acted,
               status |-> IF ~c.allowed THEN 403
                          ELSE IF fs = "ok" THEN 200 ELSE 500]

\* c.DefaultQuery("path", "/")
ListDirectory ==
  /\ fileOp = NoFileOp
  /\ \E present \in BOOLEAN, q \in Paths :
       FileHandler("ListDirectory", IF present THEN q ELSE <<"/">>)
  /\ UNCHANGED <<gateVars, now, auxVars, services, issued, verdict, browser, limVars, textVars>>

\* c.Query("path"), refused when empty
PathRequired(op) ==
  /\ fileOp = NoFileOp
  /\ \E q \in Paths :
       IF q = <<>>
       THEN fileOp' = [NoFileOp EXCEPT !.op = op, !.status = 400]
       ELSE FileHandler(op, q)
  /\ UNCHANGED <<gateVars, now, auxVars, services, issued, verdict, browser, limVars, textVars>>

GetFileContent == PathRequired("GetFileContent")

GetDiskUsage == PathRequired("GetDiskUsage")

FileReply ==
  /\ fileOp # NoFileOp
  /\ fileOp' = NoFileOp
  /\ UNCHANGED <<gateVars, now, auxVars, services, issued, verdict, browser, limVars, textVars>>

PathEnvs ==
  { [EmptyEnv EXCEPT !.API_KEY = "k1", !.ALLOWED_PATHS = l] :
      l \in { <<>>, << <<"/", "x">> >>, << Wildcard >> } }

InitPath == TokenIdle /\ PathIdle /\ \E e \in PathEnvs : Boot(e, Load(e))

NextPath == ListDirectory \/ GetFileContent \/ GetDiskUsage \/ FileReply

SpecPath == InitPath /\ [][NextPath]_vars


(***************************************************************************)
(* Claims about the file browser (SpecPath)                                *)
(***************************************************************************)
\* a file handler has taken its allow-list decision
Decided == fileOp.op # "" /\ fileOp.status # 400

\* directory a is d itself or an ancestor of d
Contains(a, d) == Len(a) <= Len(d) /\ SubSeq(d, 1, Len(a)) = a

\* the cleaned absolute path is an allowed directory or lies beneath one
UnderAllowed(list, path) ==
  \E i \in DOMAIN list :
    Contains(Components(Abs(list[i])), Components(Abs(path)))

\* C8: with no wildcard configured, a path is allowed iff its cleaned
\* absolute form is an allowed prefix or lies beneath one on a component
\* boundary.
C8_ComponentBoundary ==
  (Decided /\ ~browser.allowAll) =>
    (fileOp.allowed <=> UnderAllowed(browser.allowedPaths, fileOp.path))

\* C9: the operation acts on the cleaned path the decision was taken on, a
\* path with .. elements is allowed only if what it resolves to is under an
\* allowed prefix, and nothing is done for a denied path.
C9_TraversalConfined ==
  Decided =>
    /\ fileOp.acted # <<>> => fileOp.allowed /\ fileOp.acted = Clean(Abs(fileOp.path))
    /\ ~fileOp.allowed => fileOp.acted = <<>> /\ fileOp.status = 403
    /\ (fileOp.allowed /\ ~browser.allowAll /\ DotDot \in Range(SplitPath(fileOp.path)))
         => UnderAllowed(browser.allowedPaths, fileOp.path)

\* the parts of C9 that do not rest on the component boundary
C9_ActsOnCleanedPath ==
  Decided =>
    /\ fileOp.acted # <<>> => fileOp.allowed /\ fileOp.acted = Clean(Abs(fileOp.path))
    /\ ~fileOp.allowed => fileOp.acted = <<>> /\ fileOp.status = 403
    /\ fileOp.path = <<"/", "etc", "/", ".", ".", "/", "x">> => ~fileOp.allowed

\* C10: the file endpoints enforce the configured allow-list: the wildcard
\* allows every path, otherwise exactly the configured prefixes are browsable.
C10_ConfiguredListEnforced ==
  Decided =>
    (fileOp.allowed <=> IsPathAllowed(NewBrowser(cfg.AllowedPaths), fileOp.path))


(***************************************************************************)
(* SpecTask: the task handler behind the gate.  Requests name every task   *)
(* name of the bound, with and without confirmation.                       *)
(***************************************************************************)
TaskTargets == {Target("POST", "/api/tasks/:name/run")}

InitTask ==
  /\ TokenIdle /\ PathIdle
  /\ LET e == [EmptyEnv EXCEPT !.API_KEY = "k1"] IN Boot(e, Load(e))

NextTask ==
  \/ Receive(TaskTargets, SvcCreds, GateIPs)
  \/ RecoveryMiddleware
  \/ LoggerMiddleware
  \/ CORSMiddleware
  \/ RateLimitMiddleware
  \/ AuthMiddleware
  \/ RunTask
  \/ Reply
  \/ Tick

SpecTask == InitTask /\ [][NextTask]_vars

\* RunTask has answered the request
TaskRan == req.stage = "done" /\ Last(req.ran) = "RunTask"

\* C11: a command is executed only by RunTask, only for a name that is a key
\* of the task table, and it is the command of that entry; for every other
\* name the answer is 404 carrying the name and nothing is executed.
C11_ExactTaskOnly ==
  LET table == cfg.AllowedTasks
  IN /\ req.cmd # "" =>
          /\ TaskRan /\ req.name \in DOMAIN table
          /\ req.cmd = table[req.name].Command
     /\ (TaskRan /\ req.name \notin DOMAIN table) =>
          /\ req.status = 404 /\ req.cmd = "" /\ req.msg = req.name

\* a name that the key df begins was asked for and answered 404
C11_Witness ==
  /\ TaskRan /\ req.status = 404 /\ req.cmd = ""
  /\ req.name = <<"df", "x">>

\* C12: a dangerous task is executed only with confirm=true; without it the
\* answer is 400 naming the confirm parameter and nothing is executed; a
\* task that is not dangerous is executed whatever the confirm parameter.
C12_DangerousNeedsConfirm ==
  (TaskRan /\ req.name \in DOMAIN cfg.AllowedTasks) =>
    LET t == cfg.AllowedTasks[req.name]
    IN /\ (t.Dangerous /\ req.confirm # "true") =>
            /\ req.status = 400 /\ req.cmd = ""
            /\ req.body = <<"task is dangerous, add ?confirm=true to execute">>
       /\ (t.Dangerous /\ req.confirm = "true") =>
            req.status = 200 /\ req.cmd = t.Command
       /\ ~t.Dangerous => req.status = 200 /\ req.cmd = t.Command

\* reboot was asked for with confirm=yes and refused with 400
C12_Witness ==
  /\ TaskRan /\ req.name = <<"reboot">> /\ req.confirm = "yes"
  /\ req.status = 400 /\ req.cmd = ""


(***************************************************************************)
(* SpecLimiter: goroutines calling Allow on the two client keys while the  *)
(* clock advances; limiters of every capacity of the bound.                *)
(***************************************************************************)
LimiterConfigs == {[LoadWithDefaults EXCEPT !.RateLimitRPS = n] : n \in 1..MaxCapacity}

InitLimiter ==
  /\ TokenIdle /\ PathIdle
  /\ \E c \in LimiterConfigs : Boot(EmptyEnv, c)

NextLimiter ==
  \/ AllowEnter
  \/ AllowLock
  \/ AllowClean
  \/ AllowRecord
  \/ AllowUnlock
  \/ Tick

SpecLimiter == InitLimiter /\ [][NextLimiter]_vars

\* the calls of one key, in the order they took effect
CallsOf(key) == LET Mine(c) == c.key = key IN SelectSeq(log, Mine)

\* C13: Allow returns true and appends the time of the call iff fewer than
\* limit timestamps of the key are later than that time less the window;
\* otherwise it returns false and appends nothing.
C13_AllowIff ==
  [][\A g \in Goroutines :
       (callers[g].pc = "record" /\ callers'[g].pc = "unlock") =>
         LET k == callers[g].key
             t == callers[g].at
             Inside(x) == x > t - Window
             kept == SelectSeq(requests[k], Inside)
             ok == Last(log').ok
         IN /\ Last(log').key = k /\ Last(log').at = t
            /\ ok <=> Len(kept) < cfg.RateLimitRPS
            /\ ok => requests'[k] = Append(kept, t)
            /\ ~ok => requests'[k] = kept]_vars

\* with limit 2, two calls for one key at one time were admitted and the
\* third was denied
C13_Witness ==
  /\ cfg.RateLimitRPS = 2 /\ Len(log) = 3
  /\ \A i \in 1..3 : log[i].key = log[1].key /\ log[i].at = log[1].at
  /\ log[1].ok /\ log[2].ok /\ ~log[3].ok

\* C14, as claimed: for every key and every interval of times from a to
\* a + window, both ends included, at most limit admitted calls of the key
\* have their timestamps in the interval.
C14_EveryWindowInterval ==
  \A k \in ClientIPs, a \in Times :
    Cardinality({i \in DOMAIN log :
                   /\ log[i].key = k /\ log[i].ok
                   /\ log[i].at >= a /\ log[i].at <= a + Window})
      <= cfg.RateLimitRPS

\* C14, amended: for every key and every time a, at most limit admitted
\* calls of the key have their timestamps in the window that trails a: later
\* than a less the window and not later than a.  A timestamp exactly one
\* window old no longer counts.
C14_SlidingWindow ==
  \A k \in ClientIPs, a \in Times :
    Cardinality({i \in DOMAIN log :
                   /\ log[i].key = k /\ log[i].ok
                   /\ log[i].at > a - Window /\ log[i].at <= a})
      <= cfg.RateLimitRPS

\* with limit 1 a key was admitted, denied inside the window and admitted
\* again one window after the first admission
C14_Witness ==
  /\ cfg.RateLimitRPS = 1 /\ Len(log) = 3
  /\ \A i \in 1..3 : log[i].key = log[1].key
  /\ log[1].ok /\ ~log[2].ok /\ log[3].ok
  /\ log[3].at = log[1].at + Window

RECURSIVE Replay(_, _)
\* the timestamps and results of a key's calls made on a limiter of its own
Replay(calls, limit) ==
  IF calls = <<>> THEN [stamps |-> <<>>, oks |-> <<>>]
  ELSE LET n    == Len(calls)
           prev == Replay(SubSeq(calls, 1, n - 1), limit)
           r    == Allow(prev.stamps, limit, calls[n].at)
       IN [stamps |-> r.stamps, oks |-> Append(prev.oks, r.ok)]

\* C15: the results of a key's calls and the key's timestamps are those the
\* key's own calls alone produce, whatever was called on the other keys.
C15_KeysIndependent ==
  \A k \in ClientIPs :
    LET mine == CallsOf(k)
        own  == Replay(mine, cfg.RateLimitRPS)
    IN /\ requests[k] = own.stamps
       /\ \A i \in DOMAIN mine : mine[i].ok = own.oks[i]

\* one key was denied and the other key admitted at the same time
C15_Witness ==
  \E i, j \in DOMAIN log :
    /\ i < j /\ log[i].key # log[j].key /\ log[i].at = log[j].at
    /\ ~log[i].ok /\ log[j].ok

\* C16: at most one call is between Lock and Unlock; the timestamps held for
\* a key are exactly the times of its admitted calls that the window of its
\* latest call still covers, each once, and never more than limit of them.
C16_AtomicUnderContention ==
  /\ Cardinality({g \in Goroutines : callers[g].pc \in {"clean", "record", "unlock"}}) <= 1
  /\ \A k \in ClientIPs :
       LET mine == CallsOf(k)
           Held(c) == c.ok /\ c.at > mine[Len(mine)].at - Window
           held == SelectSeq(mine, Held)
       IN /\ requests[k] = [i \in DOMAIN held |-> held[i].at]
          /\ Len(requests[k]) <= cfg.RateLimitRPS

\* a goroutine waits for the mutex while another, on the same key, holds it
\* after an earlier call was recorded
C16_Witness ==
  /\ log # <<>> /\ mu # NoHolder
  /\ \E g \in Goroutines :
       /\ g # mu /\ callers[g].pc = "lock"
       /\ callers[g].key = callers[mu].key /\ callers[mu].pc = "record"


(***************************************************************************)
(* SpecExtract: ExtractToken on every header and query parameter of the    *)
(* bound.                                                                  *)
(***************************************************************************)
InitExtract == TokenIdle /\ PathIdle /\ Boot(EmptyEnv, Load(EmptyEnv))

NextExtract == Extract \/ ExtractReturn

SpecExtract == InitExtract /\ [][NextExtract]_vars

\* C17, as claimed: a header that was sent wins in either form, the query
\* parameter is used only when no header was sent, and the result is empty
\* only when neither the header nor the query parameter holds a token.
C17_HeaderWins ==
  extracted.called =>
    LET h == extracted.header
        q == extracted.query
        bearer == h.present /\ StringsHasPrefix(h.value, BearerPrefix)
    IN /\ bearer =>
            extracted.token = SubSeq(h.value, 2, Len(h.value))
       /\ (h.present /\ ~bearer) => extracted.token = h.value
       /\ ~h.present => extracted.token = q.value
       /\ extracted.token = <<>> =>
            /\ h.value \in {<<>>, BearerPrefix}
            /\ q.value = <<>>

\* C17, amended: a header with a non-empty value wins in either form, a
\* header with an empty value counts as not sent, and the result is empty
\* iff the header is exactly "Bearer " or neither field has a value.
C17_NonEmptyHeaderWins ==
  extracted.called =>
    LET hv == extracted.header.value
        qv == extracted.query.value
        bearer == StringsHasPrefix(hv, BearerPrefix)
    IN /\ bearer => extracted.token = SubSeq(hv, 2, Len(hv))
       /\ (hv # <<>> /\ ~bearer) => extracted.token = hv
       /\ hv = <<>> => extracted.token = qv
       /\ extracted.token = <<>> <=>
            (hv = BearerPrefix \/ (hv = <<>> /\ qv = <<>>))

\* the header "Bearer " was sent along with a token in the query parameter
C17_Witness ==
  /\ extracted.called
  /\ extracted.header = Sent(BearerPrefix) /\ extracted.query = Sent(<<"t">>)
  /\ extracted.token = <<>>


(***************************************************************************)
(* Claims about the status of a refusal (SpecSvc)                          *)
(***************************************************************************)
CapabilityHandlers == {"StartService", "StopService", "RestartService", "KillProcess"}

\* the capability allow-list of the handler refuses what the request names
DeniedByAllowList(r) ==
  IF Last(r.ran) = "KillProcess"
  THEN /\ ParseInt(r.pid).ok
       /\ ParseInt(r.pid).pid \in DOMAIN RunningProcesses
       /\ RunningProcesses[ParseInt(r.pid).pid] \notin ProcessNewManager
  ELSE TrimSuffix(r.name) \notin Range(cfg.AllowedServices)

\* C18: a service or process handler answers 403 exactly when its
\* allow-list refused the request; a pid that no process has is answered
\* 404, and an action on an allow-listed service that fails, times out or is
\* cancelled is not answered 403.
C18_ForbiddenIffDenied ==
  (req.stage = "done" /\ Last(req.ran) \in CapabilityHandlers) =>
    /\ req.status = 403 <=> DeniedByAllowList(req)
    /\ (/\ Last(req.ran) = "KillProcess" /\ ParseInt(req.pid).ok
        /\ ParseInt(req.pid).pid \notin DOMAIN RunningProcesses) => req.status = 404


(***************************************************************************)
(* Claims about recovery and preflight requests (Spec)                     *)
(***************************************************************************)
\* the step taken is the deferred function of the recovery stage
RecoverStep == req.stage = "panic" /\ req' # req

C20_PreflightStopsAtCors ==
  [][req'.method = "OPTIONS" =>
       /\ Range(req'.ran) \subseteq {"recovery", "logger", "cors"}
       /\ req'.authMethod = ""
       /\ req'.stage = "done" =>
            /\ Last(req'.ran) = "cors" /\ req'.status = 204 /\ req'.body = <<>>
            /\ req'.cors.Fixed /\ req'.cors.AllowOrigin = "*"
       /\ req.method = "OPTIONS" => requests' = requests]_vars

\* a preflight of an /api route was answered 204 with the limiter untouched
C20_Witness ==
  /\ req.method = "OPTIONS" /\ req.stage = "done" /\ req.status = 204
  /\ ApiRouteOf([req EXCEPT !.method = "GET"]) # {}
  /\ \A ip \in ClientIPs : requests[ip] = <<>>


(***************************************************************************)
(* SpecCors: the gate under wildcard and specific-origin configurations.   *)
(***************************************************************************)
OriginLists ==
  { <<>>, <<"*">>, <<"http://allowed.com">>,
    <<"http://other.com", "http://allowed.com">>,
    <<"*", "http://allowed.com">> }

CorsEnvs ==
  { [EmptyEnv EXCEPT !.API_KEY = "k1", !.ALLOWED_ORIGINS = l] : l \in OriginLists }

CorsTargets ==
  {Target("GET", "/health"), Target("GET", "/api/settings"),
   Target("OPTIONS", "/api/settings"), Target("GET", "/api/nope")}

InitCors == TokenIdle /\ PathIdle /\ \E e \in CorsEnvs : Boot(e, Load(e))

NextCors ==
  \/ Receive(CorsTargets, SvcCreds, GateIPs)
  \/ RecoveryMiddleware
  \/ LoggerMiddleware
  \/ CORSMiddleware
  \/ RateLimitMiddleware
  \/ AuthMiddleware
  \/ HealthCheck
  \/ GetSettings
  \/ NoRoute
  \/ Reply
  \/ Tick

SpecCors == InitCors /\ [][NextCors]_vars

\* C21: when the configured list is the single entry "*" every response
\* carries Access-Control-Allow-Origin: *; otherwise the header is the
\* request's Origin if that equals a configured entry and is absent if not.
C21_AllowOriginHeader ==
  req.stage = "done" =>
    LET list == cfg.AllowedOrigins
    IN /\ list = <<"*">> => req.cors.AllowOrigin = "*"
       /\ list # <<"*">> =>
            /\ (\E i \in DOMAIN list : list[i] = req.origin)
                 => req.cors.AllowOrigin = req.origin
            /\ (\A i \in DOMAIN list : list[i] # req.origin)
                 => req.cors.AllowOrigin = ""

\* an unlisted origin was answered without the header although the limiter
\* turned the request away
C21_Witness ==
  /\ req.stage = "done" /\ req.status = 429
  /\ cfg.AllowedOrigins = <<"http://other.com", "http://allowed.com">>
  /\ req.origin = "http://not-allowed.com" /\ req.cors.AllowOrigin = ""

(***************************************************************************)
(* SpecShutdown: Server.Run and main.  Run starts ListenAndServe, a        *)
(* goroutine waits for SIGINT or SIGTERM and calls Shutdown with a context *)
(* that times out; main returns as soon as Run has returned.               *)
(***************************************************************************)
GraceTicks == 2   \* ticks of the grace timer within Run's 10*time.Second

baseVars == <<services, issued, verdict, browser, fileOp, limVars, textVars>>

\* the listener accepts a connection and reads a request from it
Accept(Targets, Creds, IPs) ==
  /\ srv.listening
  /\ ~srv.exited
  /\ Receive(Targets, Creds, IPs)

\* the signal goroutine of Run: <-quit, then httpServer.Shutdown(ctx).
\* Shutdown closes the listeners first, at which ListenAndServe returns
\* http.ErrServerClosed, and then waits for the connections to become idle
Signal ==
  /\ srv.shutdown = "none"
  /\ ~srv.exited
  /\ srv' = [srv EXCEPT !.listening = FALSE, !.shutdown = "waiting",
                        !.grace = GraceTicks]
  /\ UNCHANGED <<gateVars, now, baseVars, stream, cache, upd>>

\* the timer of context.WithTimeout(context.Background(), 10*time.Second)
GraceTick ==
  /\ srv.shutdown = "waiting"
  /\ ~srv.exited
  /\ srv.grace > 0
  /\ srv' = [srv EXCEPT !.grace = @ - 1]
  /\ UNCHANGED <<gateVars, now, baseVars, stream, cache, upd>>

\* httpServer.Shutdown returns: nil once no connection is active, ctx.Err()
\* once the context has timed out ("Server forced to shutdown" is logged);
\* it leaves the active connections as they are
ShutdownReturns ==
  /\ srv.shutdown = "waiting"
  /\ ~srv.exited
  /\ \/ /\ req.stage = "idle"
        /\ stream.handler # "streaming"
        /\ srv' = [srv EXCEPT !.shutdown = "done"]
     \/ /\ srv.grace = 0
        /\ srv' = [srv EXCEPT !.shutdown = "forced"]
  /\ UNCHANGED <<gateVars, now, baseVars, stream, cache, upd>>

\* what the end of the process leaves of a log stream: its goroutines end
\* with the process; a journalctl still running lives on as an orphan, one
\* that was killed and not waited for is reaped by init
AtExit(st) ==
  [st EXCEPT !.handler = IF @ = "streaming" THEN "killed" ELSE @,
             !.scanner = IF @ \in {"scan", "send"} THEN "killed" ELSE @,
             !.killer = IF @ = "waiting" THEN "killed" ELSE @,
             !.proc = IF @ = "running" THEN "orphaned"
                      ELSE IF @ = "killed" THEN "reaped" ELSE @]

\* ListenAndServe has returned: Run closes the handlers, logs "Server
\* stopped" and returns nil, and main returns, which ends the process and
\* every goroutine in it
RunReturns ==
  /\ ~srv.listening
  /\ ~srv.exited
  /\ srv' = [srv EXCEPT !.exited = TRUE]
  /\ req' = IF req.stage = "idle" THEN req ELSE [req EXCEPT !.stage = "killed"]
  /\ stream' = AtExit(stream)
  /\ UNCHANGED <<env, cfg, auth, svcAllowed, setupRoutes, requests, now,
                 baseVars, cache, upd>>

ShutdownTargets == {Target("GET", "/health"), Target("GET", "/api/events")}

InitShutdown ==
  /\ TokenIdle /\ PathIdle
  /\ Boot([EmptyEnv EXCEPT !.API_KEY = "k1"], Load([EmptyEnv EXCEPT !.API_KEY = "k1"]))

NextShutdown ==
  \/ Accept(ShutdownTargets, SvcCreds, GateIPs)
  \/ RecoveryMiddleware
  \/ LoggerMiddleware
  \/ CORSMiddleware
  \/ RateLimitMiddleware
  \/ AuthMiddleware
  \/ HealthCheck
  \/ StreamEvents
  \/ Reply
  \/ Tick
  \/ Signal
  \/ GraceTick
  \/ ShutdownReturns
  \/ RunReturns

SpecShutdown == InitShutdown /\ [][NextShutdown]_vars

\* C22: the process does not exit while a request that was in flight at the
\* signal is still inside the grace period: a request is cut off by the exit
\* only once the grace timer has run out
C22_ExitWaitsForInFlight ==
  srv.exited /\ req.stage = "killed" => srv.grace = 0

(***************************************************************************)
(* SpecStream: Handlers.StreamLogs and JournalReader.Follow.  The handler  *)
(* derives a cancellable context from the request's, Follow starts         *)
(* journalctl -f and two goroutines, and c.Stream forwards the entries.    *)
(***************************************************************************)
EntryChanCap == 2  \* capacity of entryChan (100 in StreamLogs)
MaxEvents    == 2  \* SSE events counted on one stream

\* StreamLogs up to c.Stream; startOk is whether StdoutPipe and cmd.Start
\* succeed.  On an error the handler sends an error event and returns
StreamLogs ==
  /\ stream.handler = "none"
  /\ srv.listening
  /\ ~srv.exited
  /\ \E startOk \in BOOLEAN :
       stream' = IF startOk
                 THEN [stream EXCEPT !.handler = "streaming", !.ctx = "live",
                                     !.proc = "running", !.scanner = "scan",
                                     !.killer = "waiting"]
                 ELSE [stream EXCEPT !.handler = "returned", !.ctx = "done",
                                     !.emitted = 1]
  /\ UNCHANGED <<gateVars, now, baseVars, srv, cache, upd>>

\* journalctl writes a line and scanner.Scan returns it
JournalLine ==
  /\ ~srv.exited
  /\ stream.proc = "running"
  /\ stream.scanner = "scan"
  /\ stream' = [stream EXCEPT !.scanner = "send"]
  /\ UNCHANGED <<gateVars, now, baseVars, srv, cache, upd>>

\* the first goroutine of Follow at its select: it sends the entry when
\* entryChan has room and returns when the context is done
ScannerSelect ==
  /\ ~srv.exited
  /\ stream.scanner = "send"
  /\ \/ /\ stream.entryChan < EntryChanCap
        /\ stream' = [stream EXCEPT !.entryChan = @ + 1, !.scanner = "scan"]
     \/ /\ stream.ctx = "done"
        /\ stream' = [stream EXCEPT !.scanner = "exited"]
  /\ UNCHANGED <<gateVars, now, baseVars, srv, cache, upd>>

\* the first goroutine of Follow in scanner.Scan: the pipe reports end of
\* file once journalctl is gone, the loop ends and the goroutine returns
ScannerEOF ==
  /\ ~srv.exited
  /\ stream.scanner = "scan"
  /\ stream.proc = "killed"
  /\ stream' = [stream EXCEPT !.scanner = "exited"]
  /\ UNCHANGED <<gateVars, now, baseVars, srv, cache, upd>>

\* the second goroutine of Follow: <-ctx.Done(), then cmd.Process.Kill().
\* Nothing calls cmd.Wait, so the killed journalctl is not reaped
Killer ==
  /\ ~srv.exited
  /\ stream.killer = "waiting"
  /\ stream.ctx = "done"
  /\ stream' = [stream EXCEPT !.killer = "exited",
                              !.proc = IF @ = "running" THEN "killed" ELSE @]
  /\ UNCHANGED <<gateVars, now, baseVars, srv, cache, upd>>

\* the function given to c.Stream at its select: an entry becomes a "log"
\* event; with the context done it returns false, c.Stream and the handler
\* return and the deferred cancel runs
StreamStep ==
  /\ ~srv.exited
  /\ stream.handler = "streaming"
  /\ \/ /\ stream.entryChan > 0
        /\ stream' = [stream EXCEPT !.entryChan = @ - 1,
                        !.emitted = IF @ < MaxEvents THEN @ + 1 ELSE @]
     \/ /\ stream.ctx = "done"
        /\ stream' = [stream EXCEPT !.handler = "returned"]
  /\ UNCHANGED <<gateVars, now, baseVars, srv, cache, upd>>

\* the client closes the connection: net/http cancels the request's context
\* and with it the context StreamLogs derived
ClientDisconnect ==
  /\ ~srv.exited
  /\ stream.handler = "streaming"
  /\ stream.ctx = "live"
  /\ stream' = [stream EXCEPT !.ctx = "done"]
  /\ UNCHANGED <<gateVars, now, baseVars, srv, cache, upd>>

\* an orphaned journalctl writes to the pipe nobody reads and is ended by
\* SIGPIPE; init reaps it
BrokenPipe ==
  /\ stream.proc = "orphaned"
  /\ stream' = [stream EXCEPT !.proc = "reaped"]
  /\ UNCHANGED <<gateVars, now, baseVars, srv, cache, upd>>

InitStream == InitShutdown

NextStream ==
  \/ StreamLogs
  \/ JournalLine
  \/ ScannerSelect
  \/ ScannerEOF
  \/ Killer
  \/ StreamStep
  \/ ClientDisconnect
  \/ BrokenPipe
  \/ Signal
  \/ GraceTick
  \/ ShutdownReturns
  \/ RunReturns
  \/ Tick

\* the goroutines of the agent keep being scheduled, the timer of Shutdown
\* keeps running and the kernel delivers SIGPIPE; journal lines, clients and
\* signals come as they please
StreamFairness ==
  /\ WF_vars(ScannerSelect)
  /\ WF_vars(ScannerEOF)
  /\ WF_vars(Killer)
  /\ WF_vars(StreamStep)
  /\ WF_vars(BrokenPipe)
  /\ WF_vars(GraceTick)
  /\ WF_vars(ShutdownReturns)
  /\ WF_vars(RunReturns)

SpecStream == InitStream /\ [][NextStream]_vars /\ StreamFairness

\* the stream has stopped and nothing of it is left
StreamReleased ==
  /\ stream.handler \in {"returned", "killed"}
  /\ stream.scanner \in {"none", "exited", "killed"}
  /\ stream.killer \in {"none", "exited", "killed"}
  /\ stream.proc \in {"none", "reaped"}

\* C23: once the client has disconnected from a running log stream, or the
\* server is shutting down with one running, the handler eventually stops,
\* the goroutines of Follow end and journalctl is terminated and released
C23_StreamEventuallyReleased ==
  (stream.handler = "streaming" /\ (stream.ctx = "done" \/ srv.shutdown # "none"))
    ~> StreamReleased

(***************************************************************************)
(* SpecCache: cache.Cache.  Every method holds Cache.mu for its whole body *)
(* and reads time.Now() under it, so a call is one step; the calls of      *)
(* concurrent goroutines and the cleanup goroutine interleave freely.      *)
(***************************************************************************)
MaxTTL == 2   \* the longest time to live, in ticks

CacheKeys   == {"key1", "key2"}
CacheValues == {"value1", "value2"}
CacheTTLs   == {0 - 1, MaxTTL}

\* a key the map does not hold
NoItem == [found |-> FALSE, Value |-> "", Expiration |-> 0]

\* no write has been made for a key
NoWrite == [live |-> FALSE, value |-> "", exp |-> 0]

NoGet == [key |-> "", at |-> 0, value |-> "", found |-> FALSE]

\* Cache.Get returning an entry whatever its expiration
CacheGetStale(c, key, t) ==
  [key |-> key, at |-> t, value |-> c.items[key].Value, found |-> c.items[key].found]

\* Cache.Get at time t
CacheGet(c, key, t) ==
  LET item == c.items[key]
  IN IF ~item.found \/ t > item.Expiration
     THEN [key |-> key, at |-> t, value |-> "", found |-> FALSE]
     ELSE [key |-> key, at |-> t, value |-> item.Value, found |-> TRUE]

\* Cache.SetWithTTL at time t: c.items[key] = Item{value, now + ttl}
CacheSetWithTTL(c, key, value, ttl, t) ==
  [c EXCEPT !.items[key] = [found |-> TRUE, Value |-> value, Expiration |-> t + ttl]]

\* Cache.Set
CacheSet(c, key, value, t) == CacheSetWithTTL(c, key, value, c.ttl, t)

\* Cache.Delete
CacheDelete(c, key) == [c EXCEPT !.items[key] = NoItem]

\* Cache.Clear
CacheClear(c) == [c EXCEPT !.items = [k \in CacheKeys |-> NoItem]]

\* one round of Cache.cleanup at time t
CacheCleanup(c, t) ==
  [c EXCEPT !.items = [k \in CacheKeys |->
                         IF c.items[k].found /\ t > c.items[k].Expiration
                         THEN NoItem ELSE c.items[k]]]

\* cache.New(ttl)
New ==
  /\ cache.op = ""
  /\ \E ttl \in 1..MaxTTL :
       cache' = [op |-> "New", ttl |-> ttl,
                 items |-> [k \in CacheKeys |-> NoItem],
                 written |-> [k \in CacheKeys |-> NoWrite],
                 got |-> NoGet]
  /\ UNCHANGED <<gateVars, now, baseVars, srv, stream, upd>>

Set ==
  /\ cache.op # ""
  /\ \E key \in CacheKeys, value \in CacheValues :
       cache' = [CacheSet(cache, key, value, now) EXCEPT
                   !.op = "Set",
                   !.written[key] = [live |-> TRUE, value |-> value,
                                     exp |-> now + cache.ttl]]
  /\ UNCHANGED <<gateVars, now, baseVars, srv, stream, upd>>

SetWithTTL ==
  /\ cache.op # ""
  /\ \E key \in CacheKeys, value \in CacheValues, ttl \in CacheTTLs :
       cache' = [CacheSetWithTTL(cache, key, value, ttl, now) EXCEPT
                   !.op = "SetWithTTL",
                   !.written[key] = [live |-> TRUE, value |-> value,
                                     exp |-> now + ttl]]
  /\ UNCHANGED <<gateVars, now, baseVars, srv, stream, upd>>

Get ==
  /\ cache.op # ""
  /\ \E key \in CacheKeys :
       cache' = [cache EXCEPT !.op = "Get", !.got = CacheGet(cache, key, now)]
  /\ UNCHANGED <<gateVars, now, baseVars, srv, stream, upd>>

Delete ==
  /\ cache.op # ""
  /\ \E key \in CacheKeys :
       cache' = [CacheDelete(cache, key) EXCEPT
                   !.op = "Delete", !.written[key] = NoWrite]
  /\ UNCHANGED <<gateVars, now, baseVars, srv, stream, upd>>

Clear ==
  /\ cache.op # ""
  /\ cache' = [CacheClear(cache) EXCEPT
                 !.op = "Clear", !.written = [k \in CacheKeys |-> NoWrite]]
  /\ UNCHANGED <<gateVars, now, baseVars, srv, stream, upd>>

\* the ticker of the cleanup goroutine fires
Cleanup ==
  /\ cache.op # ""
  /\ cache' = [CacheCleanup(cache, now) EXCEPT !.op = "cleanup"]
  /\ UNCHANGED <<gateVars, now, baseVars, srv, stream, upd>>

InitCache == InitShutdown

NextCache == New \/ Set \/ SetWithTTL \/ Get \/ Delete \/ Clear \/ Cleanup \/ Tick

SpecCache == InitCache /\ [][NextCache]_vars

\* C24: a Get finds the key exactly when the latest write of the key has
\* not been deleted or cleared and its expiration time has not passed, and
\* then it returns the value of that write
C24_GetIffLiveWrite ==
  cache.op = "Get" =>
    LET g == cache.got
        w == cache.written[g.key]
    IN /\ g.found <=> (w.live /\ ~(g.at > w.exp))
       /\ g.found => g.value = w.value

\* an expired entry the cleanup has not removed is not returned
C24_Witness ==
  /\ cache.op = "Get"
  /\ ~cache.got.found
  /\ cache.items[cache.got.key].found
  /\ cache.written[cache.got.key].live
  /\ cache.got.at > cache.items[cache.got.key].Expiration
  /\ \E k \in CacheKeys : k # cache.got.key /\ cache.items[k].found

\* the admitted calls of the key of call i that took effect before it and
\* are still inside the window that trails it
AdmittedInside(i) ==
  {j \in 1..(i - 1) : /\ log[j].key = log[i].key /\ log[j].ok
                      /\ log[j].at > log[i].at - Window}

\* C25: a call is admitted exactly when fewer than limit admitted calls of
\* its key lie inside the window that trails it, whatever denied calls were
\* made in between, and the timestamps kept for a key are those of its
\* admitted calls still inside the window of its latest call: a denied call
\* records nothing and old timestamps are discarded at every call
C25_DeniedNeverPostpones ==
  /\ \A i \in DOMAIN log :
       log[i].ok <=> Cardinality(AdmittedInside(i)) < cfg.RateLimitRPS
  /\ \A k \in ClientIPs :
       LET mine == CallsOf(k)
           Kept(c) == c.ok /\ c.at > Last(mine).at - Window
       IN mine # <<>> =>
            Len(requests[k]) = Len(SelectSeq(mine, Kept))

\* with limit 1 a key was admitted, then denied by another goroutine inside
\* the window, and admitted again at the first instant the first timestamp
\* had left the window; only the new timestamp is kept
C25_Witness ==
  /\ cfg.RateLimitRPS = 1 /\ Len(log) = 3
  /\ log[1].ok /\ ~log[2].ok /\ log[3].ok
  /\ log[2].key = log[1].key /\ log[3].key = log[1].key
  /\ log[2].by # log[1].by
  /\ log[2].at > log[1].at
  /\ log[3].at = log[1].at + Window
  /\ requests[log[1].key] = <<log[3].at>>

(***************************************************************************)
(* SpecSettings: SetupHandlers.UpdateSettings, one statement at a time,    *)
(* with the requests other goroutines serve meanwhile: GetSettings, and    *)
(* the capability check of the service handlers.  No lock guards cfg.      *)
(***************************************************************************)
SettingsPathLists == { <<>>, << <<"/", "x">> >> }
SettingsSvcLists  == { <<>>, << <<"x">> >>, << <<"nginx">>, <<"x">> >> }

\* the allow-lists of a configuration
Lists(c) == [paths |-> c.AllowedPaths, services |-> c.AllowedServices]

\* UpdateSettings: c.ShouldBindJSON; a body that does not bind gets 400
UpdateBind ==
  /\ upd.pc = "idle"
  /\ \E bindOk \in BOOLEAN, ps \in SettingsPathLists, ss \in SettingsSvcLists :
       upd' = IF bindOk
              THEN [NoUpdate EXCEPT !.pc = "paths", !.paths = ps,
                                    !.services = ss, !.before = Lists(cfg)]
              ELSE [NoUpdate EXCEPT !.status = 400]
  /\ UNCHANGED <<gateVars, now, baseVars, srv, stream, cache>>

\* if len(req.AllowedPaths) > 0 { h.cfg.AllowedPaths = req.AllowedPaths }
UpdatePaths ==
  /\ upd.pc = "paths"
  /\ cfg' = IF Len(upd.paths) > 0 THEN [cfg EXCEPT !.AllowedPaths = upd.paths]
            ELSE cfg
  /\ upd' = [upd EXCEPT !.pc = "services"]
  /\ UNCHANGED <<env, auth, svcAllowed, setupRoutes, requests, req, now,
                 baseVars, srv, stream, cache>>

\* if len(req.AllowedServices) > 0 { h.cfg.AllowedServices = ... }
UpdateServices ==
  /\ upd.pc = "services"
  /\ cfg' = IF Len(upd.services) > 0
            THEN [cfg EXCEPT !.AllowedServices = upd.services]
            ELSE cfg
  /\ upd' = [upd EXCEPT !.pc = "save"]
  /\ UNCHANGED <<env, auth, svcAllowed, setupRoutes, requests, req, now,
                 baseVars, srv, stream, cache>>

\* config.UpdateEnvFile and the answer; writeOk is whether os.WriteFile
\* succeeds
UpdateSave ==
  /\ upd.pc = "save"
  /\ \E writeOk \in BOOLEAN :
       IF writeOk
       THEN /\ env' = [env EXCEPT
                         !.ALLOWED_PATHS = IF Len(upd.paths) > 0
                                           THEN upd.paths ELSE @,
                         !.ALLOWED_SERVICES = IF Len(upd.services) > 0
                                              THEN upd.services ELSE @]
            /\ upd' = [upd EXCEPT !.pc = "idle", !.status = 200]
       ELSE /\ env' = env
            /\ upd' = [upd EXCEPT !.pc = "idle", !.status = 500]
  /\ UNCHANGED <<cfg, auth, svcAllowed, setupRoutes, requests, req, now,
                 baseVars, srv, stream, cache>>

\* another goroutine serves GetSettings while the update is under way
ReadSettings ==
  /\ upd.pc # "idle"
  /\ upd' = [upd EXCEPT !.read = TRUE, !.seen = Lists(cfg)]
  /\ UNCHANGED <<gateVars, now, baseVars, srv, stream, cache>>

\* another goroutine serves a service action while the update is under way:
\* Manager.IsAllowed consults the map NewManager built
CheckService ==
  /\ upd.pc # "idle"
  /\ upd' = [upd EXCEPT !.checked = TRUE, !.manager = svcAllowed]
  /\ UNCHANGED <<gateVars, now, baseVars, srv, stream, cache>>

InitSettings == TokenIdle /\ PathIdle /\ \E e \in SvcEnvs : Boot(e, Load(e))

NextSettings ==
  \/ UpdateBind
  \/ UpdatePaths
  \/ UpdateServices
  \/ UpdateSave
  \/ ReadSettings
  \/ CheckService
  \/ Tick

SpecSettings == InitSettings /\ [][NextSettings]_vars

\* the allow-lists once the update under way has been made
ListsAfter ==
  [paths    |-> IF Len(upd.paths) > 0 THEN upd.paths ELSE upd.before.paths,
   services |-> IF Len(upd.services) > 0 THEN upd.services
                ELSE upd.before.services]

\* C26: what a reader observed while an update was under way is the pair of
\* allow-lists from before the update or the pair from after it, and the
\* services a capability check consulted are those of one of the two
C26_ReadersSeeWholeUpdate ==
  /\ upd.read => upd.seen \in {upd.before, ListsAfter}
  /\ upd.checked => upd.manager \in {Range(upd.before.services),
                                     Range(ListsAfter.services)}

\* the paths of the health check and of the setup-mode bootstrap endpoints
OpenPaths == {"/health", "/setup", "/setup/generate", "/setup/save"}

\* the handlers setupRoutes registers
RouteHandlers == {r.handler : r \in Routes(TRUE)}

\* C27: on every path but the health check and the setup-mode bootstrap
\* endpoints a registered handler runs only for a request that passed
\* authentication
C27_HandlersRunAuthenticated ==
  (req.path \notin OpenPaths /\ Range(req.ran) \cap RouteHandlers # {})
    => req.authMethod # ""

\* C28: no request has a signal sent to a process, and every kill request
\* that reaches the handler ends with an unsuccessful answer
C28_NoSignalEverSent ==
  /\ ~req.signalled
  /\ (req.stage = "done" /\ "KillProcess" \in Range(req.ran))
       => req.status \in {400, 403}

\* an authenticated request to kill a running process was refused
C28_Witness ==
  /\ req.stage = "done" /\ Last(req.ran) = "KillProcess"
  /\ req.authMethod = "api_key"
  /\ req.pid = "7" /\ ParseInt(req.pid).pid \in DOMAIN RunningProcesses
  /\ req.status = 403 /\ req.body = <<"killing process is not allowed">>
  /\ ~req.signalled

\* SaveKey answers the request
SaveStep == At("SaveKey") /\ req'.stage = "done"

\* C29: a key-save request with a missing key or one of fewer than 32
\* characters is answered 400 with nothing persisted and nothing changed,
\* and one that is not answered 200 leaves APIKey, JWTSecret and SetupMode,
\* and the secrets the server authenticates with, as they were
C29_FailedSaveChangesNothing ==
  [][SaveStep =>
       /\ (req'.key = "" \/ StrLen(req'.key) < 32)
            => req'.status = 400 /\ env' = env /\ cfg' = cfg
       /\ req'.status # 200
            => /\ req'.status \in {400, 500}
               /\ cfg'.APIKey = cfg.APIKey
               /\ cfg'.JWTSecret = cfg.JWTSecret
               /\ cfg'.SetupMode = cfg.SetupMode
               /\ auth' = auth]_vars

\* in setup mode a key of full length could not be written to the env file:
\* the request got 500 and the agent is still in setup mode without a key
C29_Witness ==
  /\ req.stage = "done" /\ Last(req.ran) = "SaveKey"
  /\ req.key = "k1" /\ req.status = 500
  /\ cfg.SetupMode /\ cfg.APIKey = "" /\ env.API_KEY = ""

\* C30: once a shared secret is configured, an unauthenticated request to
\* POST /setup/save does not replace the stored key
C30_SetupSaveOnlyWithoutKey ==
  [][(At("SaveKey") /\ req.path = "/setup/save" /\ req.authMethod = ""
        /\ cfg.APIKey # "")
       => cfg'.APIKey = cfg.APIKey /\ env'.API_KEY = env.API_KEY]_vars

====
